---- MODULE Spec2Model ----
(***************************************************************************)
(* A model of the Petite Treats storefront: the session-storage cart of    *)
(* the products page and the cart page, and the request handlers of the    *)
(* catalog API.                                                            *)
(*                                                                         *)
(* Text is a sequence of one-character strings, so that the string         *)
(* functions of the code (split, slice, indexOf, toLowerCase, parseInt,    *)
(* toFixed, LIKE matching) are computed character by character.  In the    *)
(* description texts a word that is never taken apart is written as one    *)
(* element ("homemade"); the separators " " and "-" are always elements    *)
(* of their own.                                                           *)
(*                                                                         *)
(* A JavaScript number with at most two decimals is held in hundredths     *)
(* (7 dollars is 700); a count is a plain integer.                         *)
(***************************************************************************)
EXTENDS Integers, Sequences, FiniteSets, TLC

(***************************************************************************)
(* Bounds of the model.                                                    *)
(***************************************************************************)
\* an Add is explored only while the cart holds fewer units than this
MaxUnits == 3
\* the stored descriptions have 1..MaxDescToks words
MaxDescToks == 4

(***************************************************************************)
(* String functions.                                                       *)
(***************************************************************************)
UpperChars == <<"A","B","C","D","E","F","G","H","I","J","K","L","M",
                "N","O","P","Q","R","S","T","U","V","W","X","Y","Z">>
LowerChars == <<"a","b","c","d","e","f","g","h","i","j","k","l","m",
                "n","o","p","q","r","s","t","u","v","w","x","y","z">>
DigitChars == <<"0","1","2","3","4","5","6","7","8","9">>

IsDigit(c) == \E i \in 1..10 : DigitChars[i] = c
DigitVal(c) == (CHOOSE i \in 1..10 : DigitChars[i] = c) - 1

lowerChar(c) ==
  IF \E i \in 1..26 : UpperChars[i] = c
    THEN LowerChars[CHOOSE i \in 1..26 : UpperChars[i] = c]
    ELSE c

upperChar(c) ==
  IF \E i \in 1..26 : LowerChars[i] = c
    THEN UpperChars[CHOOSE i \in 1..26 : LowerChars[i] = c]
    ELSE c

\* String.prototype.toLowerCase
toLowerCase(s) == [i \in 1..Len(s) |-> lowerChar(s[i])]

\* s.charAt(0).toUpperCase() + s.slice(1)
capitalize(w) == IF w = <<>> THEN <<>> ELSE <<upperChar(w[1])>> \o Tail(w)

\* String.prototype.split with a one-character separator
split(s, sep) ==
  LET RECURSIVE F(_, _, _)
      F(i, cur, acc) ==
        IF i > Len(s) THEN Append(acc, cur)
        ELSE IF s[i] = sep THEN F(i + 1, <<>>, Append(acc, cur))
        ELSE F(i + 1, Append(cur, s[i]), acc)
  IN F(1, <<>>, <<>>)

\* Array.prototype.join
join(list, sep) ==
  LET RECURSIVE F(_)
      F(i) == IF i > Len(list) THEN <<>>
              ELSE IF i = 1 THEN list[1] \o F(2)
              ELSE <<sep>> \o list[i] \o F(i + 1)
  IN F(1)

\* String.prototype.indexOf (0-based, -1 when absent)
indexOf(s, pat) ==
  LET hits == {i \in 0..(Len(s) - Len(pat)) :
                 \A k \in 1..Len(pat) : s[i + k] = pat[k]}
  IN IF hits = {} THEN -1 ELSE CHOOSE i \in hits : \A j \in hits : i <= j

\* String.prototype.slice(start, end), 0-based, negative indexes from the end
slice(s, start, end) ==
  LET n == Len(s)
      from == IF start < 0 THEN (IF n + start < 0 THEN 0 ELSE n + start)
              ELSE (IF start > n THEN n ELSE start)
      to == IF end < 0 THEN (IF n + end < 0 THEN 0 ELSE n + end)
            ELSE (IF end > n THEN n ELSE end)
  IN IF to <= from THEN <<>> ELSE SubSeq(s, from + 1, to)

\* Array.prototype.splice(start, 0, elem): insertion, negative start from the end
spliceInsert(arr, start, elem) ==
  LET n == Len(arr)
      at == IF start < 0 THEN (IF n + start < 0 THEN 0 ELSE n + start)
            ELSE (IF start > n THEN n ELSE start)
  IN SubSeq(arr, 1, at) \o <<elem>> \o SubSeq(arr, at + 1, n)

\* Array.prototype.splice(i, 1) at the 0-based index i: the array left
spliceRemove(arr, i) == SubSeq(arr, 1, i) \o SubSeq(arr, i + 2, Len(arr))

\* Number to decimal digits (String(n) of a non-negative integer)
RECURSIVE digitsOf(_)
digitsOf(n) ==
  IF n < 10 THEN <<DigitChars[n + 1]>>
  ELSE digitsOf(n \div 10) \o <<DigitChars[(n % 10) + 1]>>

\* String(n) of an integer
numToText(n) == IF n < 0 THEN <<"-">> \o digitsOf(0 - n) ELSE digitsOf(n)

\* the longest prefix of digits of s
RECURSIVE digitPrefix(_)
digitPrefix(s) ==
  IF s = <<>> \/ ~IsDigit(s[1]) THEN <<>> ELSE <<s[1]>> \o digitPrefix(Tail(s))

\* the value of a sequence of digits
RECURSIVE digitsValue(_)
digitsValue(d) ==
  IF d = <<>> THEN 0 ELSE 10 * digitsValue(SubSeq(d, 1, Len(d) - 1)) + DigitVal(d[Len(d)])

\* parseInt(s): an optional sign, then the longest run of digits; NaN when
\* there is none.  What follows the digits (".5", "e2") is ignored.
parseInt(s) ==
  LET neg == s # <<>> /\ s[1] = "-"
      body == IF s # <<>> /\ s[1] \in {"-", "+"} THEN Tail(s) ELSE s
      d == digitPrefix(body)
  IN IF d = <<>> THEN [nan |-> TRUE, val |-> 0]
     ELSE [nan |-> FALSE, val |-> IF neg THEN 0 - digitsValue(d) ELSE digitsValue(d)]

\* Number.prototype.toFixed(2) of a number held in hundredths
toFixed2(h) ==
  LET a == IF h < 0 THEN 0 - h ELSE h
      frac == a % 100
  IN (IF h < 0 THEN <<"-">> ELSE <<>>) \o digitsOf(a \div 100) \o <<".">>
       \o <<DigitChars[(frac \div 10) + 1], DigitChars[(frac % 10) + 1]>>

\* parseFloat(s) in hundredths, for the texts toFixed(2) writes: an optional
\* sign, digits, and an optional "." with up to two digits that count
parseFloat(s) ==
  LET neg == s # <<>> /\ s[1] = "-"
      body == IF neg THEN Tail(s) ELSE s
      whole == digitPrefix(body)
      rest == SubSeq(body, Len(whole) + 1, Len(body))
      fr == IF rest # <<>> /\ rest[1] = "." THEN digitPrefix(Tail(rest)) ELSE <<>>
      f1 == IF Len(fr) >= 1 THEN DigitVal(fr[1]) ELSE 0
      f2 == IF Len(fr) >= 2 THEN DigitVal(fr[2]) ELSE 0
      v == 100 * digitsValue(whole) + 10 * f1 + f2
  IN IF neg THEN 0 - v ELSE v

\* a mutated formatDashes, which keeps the case of the words
formatDashes_KeepsCase(name) ==
  LET words == split(name, " ")
  IN join([i \in 1..Len(words) |-> words[i]], "-")

\* faq.js formatDashes / part_001 formatDashes: split on " ", lowercase, join with "-"
formatDashes(name) ==
  LET words == split(name, " ")
  IN join([i \in 1..Len(words) |-> toLowerCase(words[i])], "-")

\* formatTitleCase: split on "-", capitalise each word, join with " "
formatTitleCase(dirName) ==
  LET words == split(dirName, "-")
  IN join([i \in 1..Len(words) |-> capitalize(words[i])], " ")

(***************************************************************************)
(* The catalog (setup.sql): three of the seeded products, with the prices  *)
(* and flavors of the seed.  The price column is INT.                      *)
(***************************************************************************)
Cake == <<"C","a","k","e">>
Pie == <<"P","i","e">>
CakePops == <<"C","a","k","e"," ","P","o","p","s">>

ProductNames == {Cake, Pie, CakePops}

\* products.price, in hundredths
PriceOf(name) ==
  CASE name = Cake -> 1000
    [] name = Pie -> 1000
    [] name = CakePops -> 200

\* products.description: the first words of the seeded descriptions
DescWords(name) ==
  CASE name = Cake -> <<"One", "homemade", "cake,", "freshly", "baked.", "Each">>
    [] name = Pie -> <<"One", "homemade", "pie,", "six", "inches", "in">>
    [] name = CakePops -> <<"Three", "homemade", "cake", "pops,", "freshly", "baked.">>

Chocolate == <<"C","h","o","c","o","l","a","t","e">>
RedVelvet == <<"R","e","d"," ","V","e","l","v","e","t">>
Pumpkin == <<"P","u","m","p","k","i","n">>
ChocolateCream == <<"C","h","o","c","o","l","a","t","e"," ","C","r","e","a","m">>
Lemon == <<"L","e","m","o","n">>
Raspberry == <<"R","a","s","p","b","e","r","r","y">>
Coffee == <<"C","o","f","f","e","e">>

\* products_flavors: the seeded associations of the three products
SeedFlavors ==
  { [product |-> Cake, flavor |-> Chocolate], [product |-> Cake, flavor |-> RedVelvet],
    [product |-> Pie, flavor |-> Pumpkin], [product |-> Pie, flavor |-> ChocolateCream],
    [product |-> CakePops, flavor |-> Lemon], [product |-> CakePops, flavor |-> Raspberry],
    [product |-> CakePops, flavor |-> Coffee] }

\* macaron_flavors and faq: the first seeded rows
SeedMacaronFlavors ==
  { [name |-> Chocolate, description |-> <<"Filled with decadent chocolate ganache">>,
     image |-> <<"imgs/chocolate-macaron.jpg">>],
    [name |-> <<"M","a","n","g","o">>, description |-> <<"Filled with mango buttercream">>,
     image |-> <<"imgs/mango-macaron.jpg">>] }

SeedFaq ==
  { [id |-> 1, question |-> <<"Do you do delivery?">>,
     answer |-> <<"Unfortunately, we do not currently offer delivery at the moment.">>],
    [id |-> 2, question |-> <<"Where do I pick up my order?">>,
     answer |-> <<"Please pick up your order at 1234 Main Street.">>] }

\* the box decorations the products page documents (GET /box-decorations)
Plain == <<"P","l","a","i","n">>
Bow == <<"B","o","w">>

\* the selections of the two <select>s explored for a product: a flavor of the
\* product (products_flavors) with the first box, another with the second
SelectionsOf(name) ==
  CASE name = Cake -> {<<Chocolate, Plain>>, <<RedVelvet, Bow>>}
    [] name = Pie -> {<<Pumpkin, Plain>>, <<ChocolateCream, Bow>>}
    [] name = CakePops -> {<<Lemon, Plain>>, <<Coffee, Bow>>}

(***************************************************************************)
(* State.                                                                  *)
(***************************************************************************)
VARIABLES
  \* browser, cart
  href,          \* window.location.href: "products.html" or "cart.html"
  loaded,        \* the page's init() has run
  sessionCart,   \* sessionStorage "cart": [present, items]; absent key = present FALSE
  cartDom,       \* cart page: the <li> children of #cart
  cartCount,     \* cart page: textContent of #cart-count
  totalPrice,    \* cart page: textContent of #total-price
  lastOp,        \* history: the last handler that ran, with its inputs
  added          \* history: per product, the quantities added since it was last absent

cartVars == <<href, loaded, sessionCart, cartDom, cartCount, totalPrice, lastOp, added>>

VARIABLES
  \* server, one request at a time
  products,      \* the products table: name -> row
  flavors,       \* the products_flavors table: a set of rows
  macaronFlavors, \* the macaron_flavors table: a set of rows, name the primary key
  faq,           \* the faq table: a set of rows, id the primary key
  feedback,      \* the feedback table: a set of rows, email the primary key
  accepted,      \* history: the submissions answered with the confirmation, in order
  srvPc,         \* where the handling of the request stands
  reqIn,         \* history: the request as received
  req,           \* the request object, as the middleware rewrites it
  res,           \* the response: status, whether sent, body
  conns,         \* connections open now
  dbCalls,       \* history: getDB() calls of this request
  queries,       \* history: the queries this request executed
  storeFailed,   \* history: a getDB() or query of this request failed
  composed       \* history: the handler composed a description

\* the tables of the store
tables == <<products, flavors, macaronFlavors, faq, feedback, accepted>>

srvVars == <<tables, srvPc, reqIn, req, res, conns, dbCalls, queries, storeFailed, composed>>

VARIABLES
  \* browser, the pages that fetch
  page,          \* the page whose script runs: "none", "products", "home", "faq", "flavors"
  results,       \* textContent of #results
  cards,         \* the <article>s of the page's section, each with the request it came from
  view,          \* products page: the section without .hidden, "list" or "single"
  search,        \* products page: value of #search
  single,        \* products page: the first card of #single-item-view, if any (the one
                 \* getElementById finds), and the number of cards in the section
  confirmation,  \* home page: textContent of #confirmation
  pending,       \* the fetches in flight
  nextId,        \* history: the number the next fetch gets
  started,       \* history: fetch sequences the user started since the page load
  cliOp,         \* history: the last step of the page, with its inputs
  lastDesc,      \* history: the last request changeDesc issued for the card shown
  lastQuery      \* history: the last request updateMenu issued, and how it was answered

cliVars == <<page, results, cards, view, search, single, confirmation, pending, nextId,
             started, cliOp, lastDesc, lastQuery>>

VARIABLES
  \* a name on its way between a page and the API
  fmtIn,         \* the text as a page or a URL first holds it
  fmtText,       \* the text now
  fmtTrail       \* history: the functions applied to it, in order

fmtVars == <<fmtIn, fmtText, fmtTrail>>

\* no name is on its way
FmtQuiet == fmtIn = <<>> /\ fmtText = <<>> /\ fmtTrail = <<>>

\* #single-item-view with no card
NoSingle == [present |-> FALSE, name |-> <<>>, flavor |-> <<>>, box |-> <<>>,
             description |-> <<>>, count |-> 0]

NoCliOp == [op |-> "none", id |-> 0, seq |-> "none", outcome |-> "none", text |-> <<>>,
            rows |-> <<>>, issued |-> FALSE]

NoDesc == [id |-> 0, description |-> <<>>, failed |-> FALSE, n |-> 0]

NoQuery == [id |-> 0, outcome |-> "none", rows |-> <<>>]

\* a tab in which no fetching page is open
CliQuiet ==
  /\ page = "none"
  /\ results = <<>>
  /\ cards = <<>>
  /\ view = "list"
  /\ search = <<>>
  /\ single = NoSingle
  /\ confirmation = <<>>
  /\ pending = {}
  /\ nextId = 1
  /\ started = 0
  /\ cliOp = NoCliOp
  /\ lastDesc = NoDesc
  /\ lastQuery = NoQuery

\* an optional parameter: undefined, or a string
Absent == [given |-> FALSE, val |-> <<>>]
Given(t) == [given |-> TRUE, val |-> t]
\* !x of an optional string: undefined and "" are falsy
falsy(x) == ~x.given \/ x.val = <<>>

NoReq == [ep |-> "none", contains |-> Absent, sort |-> Absent, direction |-> Absent,
          product |-> Absent, flavor |-> Absent, box |-> Absent,
          name |-> Absent, email |-> Absent, message |-> Absent]

\* a fresh response object: status 200, nothing sent
NewRes == [status |-> 200, sent |-> FALSE, kind |-> "none", text |-> <<>>, rows |-> <<>>]

\* a row of the products table whose description has its first k words
ProductRow(name, k) ==
  [name |-> name, price |-> PriceOf(name),
   description |-> join([i \in 1..k |-> <<DescWords(name)[i]>>], " ")]

SrvIdle ==
  /\ srvPc = "idle"
  /\ reqIn = NoReq
  /\ req = NoReq
  /\ res = NewRes
  /\ conns = 0
  /\ dbCalls = 0
  /\ queries = <<>>
  /\ storeFailed = FALSE
  /\ composed = FALSE

\* the server as the cart pages see it: not involved
SrvQuiet ==
  /\ products = [n \in ProductNames |-> ProductRow(n, MaxDescToks)]
  /\ flavors = SeedFlavors
  /\ macaronFlavors = SeedMacaronFlavors
  /\ faq = SeedFaq
  /\ feedback = {}
  /\ accepted = <<>>
  /\ SrvIdle

\* the markup of cart.html before any script runs
InitialCountText == <<"0">>
InitialTotalText == <<"0",".","0","0">>

NoOp == [op |-> "none", name |-> <<>>, flavor |-> <<>>, box |-> <<>>, text |-> <<>>,
         qty |-> 0, idx |-> 0, n |-> 0, accepted |-> FALSE]

\* JSON.parse(window.sessionStorage.getItem("cart")): null for an absent key
AbsentCart == [present |-> FALSE, items |-> <<>>]
StoredCart(items) == [present |-> TRUE, items |-> items]

\* the number of units (customization records) in a cart
RECURSIVE CartUnits(_)
CartUnits(items) ==
  IF items = <<>> THEN 0 ELSE Len(items[1].customizations) + CartUnits(Tail(items))

InitCartPages ==
  /\ href \in {"products.html", "cart.html"}
  /\ loaded = FALSE
  /\ sessionCart \in {AbsentCart, StoredCart(<<>>)}
  /\ cartDom = <<>>
  /\ cartCount = InitialCountText
  /\ totalPrice = InitialTotalText
  /\ lastOp = NoOp
  /\ added = [p \in ProductNames |-> 0]

(***************************************************************************)
(* Products page: Add (part_001 addCart, updateCart).                      *)
(***************************************************************************)
\* createQtyInput: qtyInput.min = 1, qtyInput.max = 10
QtyMin == 1
QtyMax == 10

\* the values a number input can hold: "" or a valid floating-point number
QtyTexts == { <<>>, <<"0">>, <<"1">>, <<"2">>, <<"1","0">>, <<"1","1">>,
              <<"1","0",".","5">>, <<"1","e","2">> }

\* createCard / createSingleViewCard: "$" + product.price.toFixed(2)
singleViewPrice(name) == <<"$">> \o toFixed2(PriceOf(name))

\* a mutated updateCartFind, which never takes the existing item out
updateCartFind_NoMerge(cart, name) == <<cart, <<>>>>

\* updateCart, the search loop: returns <<cart left, item found or none>>
updateCartFind(cart, name) ==
  LET RECURSIVE F(_, _, _)
      F(i, c, found) ==
        IF i >= Len(c) THEN <<c, found>>
        ELSE IF c[i + 1].name = name
          THEN F(i + 1, spliceRemove(c, i), <<c[i + 1]>>)
          ELSE F(i + 1, c, found)
  IN F(0, cart, <<>>)

\* a mutated updateCart, which takes the unit price from the page again
updateCart_Reprices(cart, qty, name, priceText, flavorValue, boxValue) ==
  LET customizations == [flavor |-> formatTitleCase(flavorValue),
                         box |-> formatTitleCase(boxValue)]
      r == updateCartFind(cart, name)
      item == [name |-> name,
               price |-> parseFloat(slice(priceText, 1, Len(priceText))),
               customizations |-> IF r[2] = <<>> THEN <<>> ELSE r[2][1].customizations]
  IN Append(r[1], [item EXCEPT !.customizations =
                     @ \o [j \in 1..qty |-> customizations]])

\* a mutated updateCart, which pushes one line item per unit
updateCart_PushesPerUnit(cart, qty, name, priceText, flavorValue, boxValue) ==
  LET customizations == [flavor |-> formatTitleCase(flavorValue),
                         box |-> formatTitleCase(boxValue)]
      r == updateCartFind(cart, name)
      item == IF r[2] = <<>>
                THEN [name |-> name,
                      price |-> parseFloat(slice(priceText, 1, Len(priceText))),
                      customizations |-> <<>>]
                ELSE r[2][1]
  IN r[1] \o [j \in 1..qty |->
               [item EXCEPT !.customizations = Append(item.customizations, customizations)]]

\* updateCart(cart) with the values it reads from the page
updateCart(cart, qty, name, priceText, flavorValue, boxValue) ==
  LET customizations == [flavor |-> formatTitleCase(flavorValue),
                         box |-> formatTitleCase(boxValue)]
      r == updateCartFind(cart, name)
      item == IF r[2] = <<>>
                THEN [name |-> name,
                      price |-> parseFloat(slice(priceText, 1, Len(priceText))),
                      customizations |-> <<>>]
                ELSE r[2][1]
      pushed == [item EXCEPT !.customizations =
                   item.customizations \o [j \in 1..qty |-> customizations]]
  IN Append(r[1], pushed)

\* addCart: the quantity check
qtyRejected(q) == (~q.nan /\ q.val < QtyMin) \/ (~q.nan /\ q.val > QtyMax)
                    \/ q.nan \/ q.val = 0

\* the stored line item of a name, as a sequence of 0 or 1 (or more) items
LinesOf(cart, name) == SelectSeq(cart, LAMBDA it : it.name = name)

addCart(name, flavorOpt, boxOpt, text) ==
  /\ href = "products.html" /\ loaded
  /\ LET qty == parseInt(text)
         old == sessionCart.items
         olds == LinesOf(old, name)
         n == IF olds = <<>> THEN 0 ELSE Len(olds[1].customizations)
     IN IF qtyRejected(qty)
          THEN /\ lastOp' = [NoOp EXCEPT !.op = "add", !.name = name, !.text = text,
                                         !.flavor = flavorOpt, !.box = boxOpt]
               /\ UNCHANGED <<href, loaded, sessionCart, cartDom, cartCount,
                              totalPrice, added>>
          ELSE /\ CartUnits(old) < MaxUnits
               /\ sessionCart' = StoredCart(updateCart(old, qty.val, name,
                                     singleViewPrice(name), toLowerCase(flavorOpt),
                                     toLowerCase(boxOpt)))
               /\ href' = "cart.html"
               /\ loaded' = FALSE
               /\ lastOp' = [NoOp EXCEPT !.op = "add", !.name = name, !.text = text,
                                         !.flavor = flavorOpt, !.box = boxOpt,
                                         !.qty = qty.val, !.n = n, !.accepted = TRUE]
               /\ added' = [added EXCEPT ![name] = @ + qty.val]
               /\ UNCHANGED <<cartDom, cartCount, totalPrice>>

Add ==
  \E name \in ProductNames : \E sel \in SelectionsOf(name) : \E text \in QtyTexts :
    addCart(name, sel[1], sel[2], text)

(***************************************************************************)
(* Cart page (cart.js): Render, Remove, Clear.                             *)
(***************************************************************************)
\* createItem: the text of one customization <li>
customText(c) ==
  <<"Flavor:", " ">> \o c.flavor \o <<"\n", "Box", " ", "Decoration:", " ">> \o c.box

\* a mutated createItem, which counts one per line item
createItem_CountsLines(item, count, total) ==
  LET items == item.customizations
      lead == numToText(Len(items)) \o <<" ">> \o item.name \o <<" ","-"," ","$">>
      sum == Len(items) * item.price
  IN [li |-> [lead |-> lead,
              span |-> toFixed2(sum),
              customs |-> [i \in 1..Len(items) |-> customText(items[i])]],
      count |-> numToText(parseInt(count).val + 1),
      total |-> toFixed2(parseFloat(total) + sum)]

\* createItem: the <li> of one line item, and the page count and total after it.
\* The <li> is [lead: its own text, span: children[0], customs: children[2]].
createItem(item, count, total) ==
  LET items == item.customizations
      lead == numToText(Len(items)) \o <<" ">> \o item.name \o <<" ","-"," ","$">>
      RECURSIVE Loop(_, _, _)
      Loop(i, cnt, sum) ==
        IF i > Len(items) THEN <<cnt, sum>>
        ELSE Loop(i + 1, numToText(parseInt(cnt).val + 1), sum + item.price)
      r == Loop(1, count, 0)
  IN [li |-> [lead |-> lead,
              span |-> toFixed2(r[2]),
              customs |-> [i \in 1..Len(items) |-> customText(items[i])]],
      count |-> r[1],
      total |-> toFixed2(parseFloat(total) + r[2])]

\* initializeCart: append createItem(cart[i]) for every stored item
initializeCart(cart, count, total) ==
  LET RECURSIVE Loop(_, _, _, _)
      Loop(i, dom, cnt, tot) ==
        IF i > Len(cart.items) THEN [dom |-> dom, count |-> cnt, total |-> tot]
        ELSE LET c == createItem(cart.items[i], cnt, tot)
             IN Loop(i + 1, Append(dom, c.li), c.count, c.total)
  IN IF cart.present THEN Loop(1, <<>>, count, total)
     ELSE [dom |-> <<>>, count |-> count, total |-> total]

\* Node.textContent of a rendered <li>: its text, the span, the button, the list
textContent(li) ==
  LET RECURSIVE Cat(_)
      Cat(i) == IF i > Len(li.customs) THEN <<>> ELSE li.customs[i] \o Cat(i + 1)
  IN li.lead \o li.span \o <<"X">> \o Cat(1)

\* a mutated removedName, which keeps the space before the name
removedName_KeepsSpace(li) ==
  LET name == textContent(li)
  IN slice(name, indexOf(name, <<" ">>), indexOf(name, <<" ","-"," ">>))

\* a mutated removedName, which reads up to " - $"
removedName_UpToDollar(li) ==
  LET name == textContent(li)
  IN slice(name, indexOf(name, <<" ">>) + 1, indexOf(name, <<" ","-"," ","$">>))

\* removeItem: the name read back from the rendered text
removedName(li) ==
  LET name == textContent(li)
  IN slice(name, indexOf(name, <<" ">>) + 1, indexOf(name, <<" ","-"," ">>))

\* a mutated removeLoop, which splices two items out at the name
removeLoop_AndNext(cart, name) ==
  LET RECURSIVE F(_, _)
      F(i, c) ==
        IF i >= Len(c) THEN c
        ELSE IF c[i + 1].name = name
          THEN F(i + 1, SubSeq(c, 1, i) \o SubSeq(c, i + 3, Len(c)))
        ELSE F(i + 1, c)
  IN F(0, cart)

\* removeItem: the loop that splices the named items out of the cart
removeLoop(cart, name) ==
  LET RECURSIVE F(_, _)
      F(i, c) ==
        IF i >= Len(c) THEN c
        ELSE IF c[i + 1].name = name THEN F(i + 1, spliceRemove(c, i))
        ELSE F(i + 1, c)
  IN F(0, cart)

\* what is left of the history of quantities once items have gone
addedAfter(items) ==
  [p \in ProductNames |-> IF LinesOf(items, p) = <<>> THEN 0 ELSE added[p]]

LoadCartPage ==
  /\ href = "cart.html" /\ ~loaded
  /\ LET r == initializeCart(sessionCart, cartCount, totalPrice)
     IN /\ cartDom' = r.dom
        /\ cartCount' = r.count
        /\ totalPrice' = r.total
  /\ loaded' = TRUE
  /\ lastOp' = [NoOp EXCEPT !.op = "render"]
  /\ UNCHANGED <<href, sessionCart, added>>

LoadProductsPage ==
  /\ href = "products.html" /\ ~loaded
  /\ loaded' = TRUE
  /\ lastOp' = [NoOp EXCEPT !.op = "products"]
  /\ UNCHANGED <<href, sessionCart, cartDom, cartCount, totalPrice, added>>

\* removeItem, run by the button of the k-th rendered <li>
removeItem(k) ==
  /\ href = "cart.html" /\ loaded
  /\ k \in 1..Len(cartDom)
  /\ LET li == cartDom[k]
         name == removedName(li)
     IN IF sessionCart.present
          THEN /\ sessionCart' = StoredCart(removeLoop(sessionCart.items, name))
               /\ cartCount' = numToText(parseInt(cartCount).val - Len(li.customs))
               /\ totalPrice' = toFixed2(parseFloat(totalPrice) - parseFloat(li.span))
               /\ cartDom' = SubSeq(cartDom, 1, k - 1) \o SubSeq(cartDom, k + 1, Len(cartDom))
               /\ added' = addedAfter(removeLoop(sessionCart.items, name))
          ELSE UNCHANGED <<sessionCart, cartCount, totalPrice, cartDom, added>>
  /\ lastOp' = [NoOp EXCEPT !.op = "remove", !.idx = k]
  /\ UNCHANGED <<href, loaded>>

Remove == \E k \in 1..Len(cartDom) : removeItem(k)

\* a mutated clearCart, which leaves the stored cart as it is
clearCart_KeepsStorage ==
  /\ href = "cart.html" /\ loaded
  /\ cartDom' = <<>>
  /\ totalPrice' = <<"0",".","0","0">>
  /\ cartCount' = <<"0">>
  /\ lastOp' = [NoOp EXCEPT !.op = "clear", !.n = Len(sessionCart.items)]
  /\ UNCHANGED <<href, loaded, sessionCart, added>>

\* clearCart
clearCart ==
  /\ href = "cart.html" /\ loaded
  /\ cartDom' = <<>>
  /\ totalPrice' = <<"0",".","0","0">>
  /\ cartCount' = <<"0">>
  /\ sessionCart' = StoredCart(<<>>)
  /\ added' = [p \in ProductNames |-> 0]
  /\ lastOp' = [NoOp EXCEPT !.op = "clear", !.n = Len(sessionCart.items)]
  /\ UNCHANGED <<href, loaded>>

\* goToCart (both pages) and goToProducts: the next page starts from its markup
goToCart ==
  /\ loaded
  /\ href' = "cart.html"
  /\ loaded' = FALSE
  /\ cartDom' = <<>>
  /\ cartCount' = InitialCountText
  /\ totalPrice' = InitialTotalText
  /\ lastOp' = [NoOp EXCEPT !.op = "goToCart"]
  /\ UNCHANGED <<sessionCart, added>>

goToProducts ==
  /\ href = "cart.html" /\ loaded
  /\ href' = "products.html"
  /\ loaded' = FALSE
  /\ cartDom' = <<>>
  /\ cartCount' = InitialCountText
  /\ totalPrice' = InitialTotalText
  /\ lastOp' = [NoOp EXCEPT !.op = "goToProducts"]
  /\ UNCHANGED <<sessionCart, added>>

NextCart ==
  \/ Add /\ UNCHANGED <<srvVars, cliVars, fmtVars>>
  \/ LoadCartPage /\ UNCHANGED <<srvVars, cliVars, fmtVars>>
  \/ LoadProductsPage /\ UNCHANGED <<srvVars, cliVars, fmtVars>>
  \/ Remove /\ UNCHANGED <<srvVars, cliVars, fmtVars>>
  \/ clearCart /\ UNCHANGED <<srvVars, cliVars, fmtVars>>
  \/ goToCart /\ UNCHANGED <<srvVars, cliVars, fmtVars>>
  \/ goToProducts /\ UNCHANGED <<srvVars, cliVars, fmtVars>>

vars == <<cartVars, srvVars, cliVars, fmtVars>>

InitCart == InitCartPages /\ SrvQuiet /\ CliQuiet /\ FmtQuiet

SpecCart == InitCart /\ [][NextCart]_vars

(***************************************************************************)
(* Claims about the cart.                                                  *)
(***************************************************************************)
\* C1: after any sequence of Add, Remove and Clear from an absent or empty
\* cart, the stored cart holds at most one line item per product name.
C1_OneLinePerName ==
  \A i, j \in 1..Len(sessionCart.items) :
    i # j => sessionCart.items[i].name # sessionCart.items[j].name

\* an accepted Add of a product already in a cart of several line items
C1_Witness ==
  /\ lastOp.op = "add" /\ lastOp.accepted /\ lastOp.n > 0
  /\ Len(sessionCart.items) >= 2

\* C2: an accepted Add of quantity q turns the line item of the product, holding
\* n records, into the one line item of that product holding the n old records
\* followed by q copies of the selected pair (n = 0 when the product was absent);
\* and in every cart the length of a line item's customization list is the sum
\* of the quantities added for the product since it was last absent.
C2_AddStep ==
  (lastOp'.op = "add" /\ lastOp'.accepted) =>
    LET q == lastOp'.qty
        olds == LinesOf(sessionCart.items, lastOp'.name)
        news == LinesOf(sessionCart'.items, lastOp'.name)
        before == IF olds = <<>> THEN <<>> ELSE olds[1].customizations
    IN /\ Len(news) = 1
       /\ Len(news[1].customizations) = Len(before) + q
       /\ SubSeq(news[1].customizations, 1, Len(before)) = before
       /\ \A j \in (Len(before) + 1)..(Len(before) + q) :
            /\ toLowerCase(news[1].customizations[j].flavor) = toLowerCase(lastOp'.flavor)
            /\ toLowerCase(news[1].customizations[j].box) = toLowerCase(lastOp'.box)

C2_LengthIsQuantity ==
  \A i \in 1..Len(sessionCart.items) :
    Len(sessionCart.items[i].customizations) = added[sessionCart.items[i].name]

C2_AddAppends == [][C2_AddStep]_vars /\ []C2_LengthIsQuantity

\* an Add of 2 units to a line item that held records already
C2_Witness ==
  /\ lastOp.op = "add" /\ lastOp.accepted /\ lastOp.n > 0 /\ lastOp.qty = 2
  /\ \E i \in 1..Len(sessionCart.items) :
       /\ sessionCart.items[i].name = lastOp.name
       /\ Len(sessionCart.items[i].customizations) = lastOp.n + 2
       /\ sessionCart.items[i].customizations[1] # sessionCart.items[i].customizations[lastOp.n + 1]

\* C3: Remove of the rendered line item of product P deletes the line item named
\* P from the stored cart, lowers the displayed count by the item's quantity and
\* the displayed total by quantity times unit price, and removes only that
\* item's rendered entry.
C3_RemoveStep ==
  (lastOp'.op = "remove") =>
    LET k == lastOp'.idx
        it == sessionCart.items[k]
        qty == Len(it.customizations)
    IN /\ sessionCart.present /\ k <= Len(sessionCart.items)
       \* the k-th rendered entry is the rendering of the k-th stored item
       /\ cartDom[k] = createItem(it, InitialCountText, InitialTotalText).li
       /\ sessionCart'.present
       /\ sessionCart'.items =
            SubSeq(sessionCart.items, 1, k - 1)
              \o SubSeq(sessionCart.items, k + 1, Len(sessionCart.items))
       /\ LinesOf(sessionCart'.items, it.name) = <<>>
       /\ cartCount' = numToText(parseInt(cartCount).val - qty)
       /\ totalPrice' = toFixed2(parseFloat(totalPrice) - qty * it.price)
       /\ cartDom' = SubSeq(cartDom, 1, k - 1) \o SubSeq(cartDom, k + 1, Len(cartDom))

C3_RemoveDeletesItem == [][C3_RemoveStep]_vars

\* the first of several rendered line items has been removed
C3_Witness ==
  /\ lastOp.op = "remove" /\ lastOp.idx = 1
  /\ Len(cartDom) >= 1 /\ Len(sessionCart.items) = Len(cartDom)
  /\ parseInt(cartCount).val >= 1

\* C4: Clear, from any cart state, leaves the stored cart an empty array, the
\* displayed count 0, the displayed total "0.00" and no rendered line item;
\* Clear applied twice gives the state Clear applied once gives.
C4_Cleared ==
  lastOp.op = "clear" =>
    /\ sessionCart = StoredCart(<<>>)
    /\ cartCount = <<"0">>
    /\ totalPrice = <<"0",".","0","0">>
    /\ cartDom = <<>>

C4_ClearTwice ==
  (lastOp.op = "clear" /\ lastOp'.op = "clear") =>
    UNCHANGED <<href, loaded, sessionCart, cartDom, cartCount, totalPrice>>

C4_ClearEmpties == []C4_Cleared /\ [][C4_ClearTwice]_vars

\* Clear has run on a cart of two line items or more
C4_Witness == lastOp.op = "clear" /\ lastOp.n >= 2

\* C5: an Add whose quantity input is non-numeric, less than 1 or greater than 10
\* leaves the stored cart as it was and does not navigate to the cart view; an
\* Add whose quantity is in 1..10 persists the updated cart and navigates.
\* The number a quantity text denotes, in hundredths: mantissa times 10^exponent.
numberOfText(t) ==
  LET e == indexOf(t, <<"e">>)
      mant == IF e = -1 THEN t ELSE SubSeq(t, 1, e)
      expo == IF e = -1 THEN 0 ELSE digitsValue(SubSeq(t, e + 2, Len(t)))
      RECURSIVE Pow10(_)
      Pow10(k) == IF k = 0 THEN 1 ELSE 10 * Pow10(k - 1)
  IN [nan |-> parseInt(mant).nan, val |-> parseFloat(mant) * Pow10(expo)]

C5_AddStep ==
  (lastOp'.op = "add") =>
    LET v == numberOfText(lastOp'.text)
    IN IF v.nan \/ v.val < 100 * QtyMin \/ v.val > 100 * QtyMax
         THEN sessionCart' = sessionCart /\ href' = href
         ELSE /\ sessionCart'.present /\ sessionCart' # sessionCart
              /\ href' = "cart.html"

C5_QuantityValidated == [][C5_AddStep]_vars

\* what the cart page shows for the stored line items: one entry per item, in
\* order, with its quantity, name and line total, and the count and total
DisplayedTotal(items) ==
  LET RECURSIVE Sum(_)
      Sum(i) == IF i > Len(items) THEN 0
                ELSE Len(items[i].customizations) * items[i].price + Sum(i + 1)
  IN Sum(1)

DisplayShows(items) ==
  /\ Len(cartDom) = Len(items)
  /\ \A i \in 1..Len(items) :
       LET qty == Len(items[i].customizations)
       IN /\ cartDom[i].lead = numToText(qty) \o <<" ">> \o items[i].name
                                  \o <<" ","-"," ","$">>
          /\ cartDom[i].span = toFixed2(qty * items[i].price)
          /\ Len(cartDom[i].customs) = qty
  /\ cartCount = numToText(CartUnits(items))
  /\ totalPrice = toFixed2(DisplayedTotal(items))

\* C22: when the session-storage key is absent the cart is treated as empty:
\* Render shows no line item and a count of 0, and an accepted Add stores a cart
\* of exactly one line item, the one Add stores from a stored empty array.
C22_RenderAbsent ==
  (href = "cart.html" /\ loaded /\ ~sessionCart.present) =>
    cartDom = <<>> /\ cartCount = <<"0">>

C22_AddStep ==
  (lastOp'.op = "add" /\ lastOp'.accepted /\ sessionCart.items = <<>>) =>
    /\ sessionCart'.present
    /\ Len(sessionCart'.items) = 1
    /\ LET it == sessionCart'.items[1]
       IN /\ it.name = lastOp'.name
          /\ it.price = PriceOf(lastOp'.name)
          /\ Len(it.customizations) = lastOp'.qty
          /\ \A j \in 1..Len(it.customizations) :
               /\ toLowerCase(it.customizations[j].flavor) = toLowerCase(lastOp'.flavor)
               /\ toLowerCase(it.customizations[j].box) = toLowerCase(lastOp'.box)

C22_AbsentIsEmpty == []C22_RenderAbsent /\ [][C22_AddStep]_vars

\* the cart page has rendered with no cart key in the session storage
C22_Witness ==
  /\ lastOp.op = "render" /\ href = "cart.html" /\ loaded
  /\ ~sessionCart.present

\* C24: Render of a stored cart shows for every line item a quantity equal to
\* the length of its customization list and a line total of quantity times unit
\* price, a count equal to the sum of the quantities and a total equal to the
\* sum of the line totals.
C24_RenderShows ==
  (lastOp.op = "render" /\ sessionCart.present) => DisplayShows(sessionCart.items)

\* a cart of two line items, one of them of two units, has been rendered
C24_Witness ==
  /\ lastOp.op = "render" /\ sessionCart.present
  /\ Len(sessionCart.items) >= 2
  /\ \E i \in 1..Len(sessionCart.items) : Len(sessionCart.items[i].customizations) >= 2

\* C27: on the cart page, after the initial Render and any Remove and Clear,
\* the displayed count is the sum of the customization-list lengths of the stored
\* cart, the displayed total the sum of quantity times unit price, and the
\* rendered line items are the stored line items.
C27_DisplayMatchesStore ==
  (href = "cart.html" /\ loaded) => DisplayShows(sessionCart.items)

\* a line item has been removed and another is still shown
C27_Witness ==
  /\ lastOp.op = "remove" /\ href = "cart.html" /\ loaded
  /\ Len(sessionCart.items) >= 1 /\ Len(cartDom) >= 1

(***************************************************************************)
(* Carts an earlier visit has stored: product names of any shape, as the    *)
(* products table may hold them, and unit prices recorded before a price    *)
(* change.  Add runs on the repriced carts, Render and Remove on all.       *)
(***************************************************************************)
TwelvePies == <<"1","2"," ","P","i","e","s">>
PieDashA == <<"P","i","e"," ","-"," ","A">>
PieDollar == <<"P","i","e"," ","-"," ","$","5">>
DashPie == <<"-"," ","P","i","e">>
PieDash == <<"P","i","e"," ","-">>
OneDash == <<"-">>
HalfBaked == <<"H","a","l","f","-","B","a","k","e","d">>

StoredNames ==
  ProductNames \cup {TwelvePies, PieDashA, PieDollar, DashPie, PieDash, OneDash, HalfBaked}

\* the unit price an item was stored with; Cake was stored when it cost 7
StoredPrice(name) ==
  IF name = Cake THEN 700 ELSE IF name \in ProductNames THEN PriceOf(name) ELSE 500

StoredItem(name, qty) ==
  [name |-> name, price |-> StoredPrice(name),
   customizations |-> [j \in 1..qty |-> [flavor |-> Chocolate, box |-> Plain]]]

SampleCarts ==
  {<<StoredItem(n, q)>> : n \in StoredNames, q \in 1..2}
  \cup {<<StoredItem(p[1], 1), StoredItem(p[2], 1)>> :
          p \in {q \in StoredNames \X StoredNames : q[1] # q[2]}}

RepricedCarts ==
  {<<StoredItem(Cake, 1), StoredItem(n, 1)>> : n \in {Pie, PieDashA}}
  \cup {<<StoredItem(CakePops, 1), StoredItem(Cake, 1)>>}

InitStored ==
  /\ \/ href = "cart.html" /\ sessionCart \in {StoredCart(c) : c \in SampleCarts}
     \/ href = "products.html" /\ sessionCart \in {StoredCart(c) : c \in RepricedCarts}
  /\ loaded = FALSE
  /\ cartDom = <<>>
  /\ cartCount = InitialCountText
  /\ totalPrice = InitialTotalText
  /\ lastOp = NoOp
  /\ added = [p \in ProductNames |-> CartUnits(LinesOf(sessionCart.items, p))]
  /\ SrvQuiet /\ CliQuiet /\ FmtQuiet

NextStored ==
  \/ Add /\ UNCHANGED <<srvVars, cliVars, fmtVars>>
  \/ LoadCartPage /\ UNCHANGED <<srvVars, cliVars, fmtVars>>
  \/ LoadProductsPage /\ UNCHANGED <<srvVars, cliVars, fmtVars>>
  \/ Remove /\ UNCHANGED <<srvVars, cliVars, fmtVars>>

SpecStored == InitStored /\ [][NextStored]_vars

hasText(s, pat) == indexOf(s, pat) # -1

\* the name begins with digits followed by a space
CountPrefixed(name) ==
  \E k \in 1..(Len(name) - 1) :
    /\ \A i \in 1..k : IsDigit(name[i])
    /\ name[k + 1] = " "

\* the stored cart without its k-th item
WithoutItem(items, k) == SubSeq(items, 1, k - 1) \o SubSeq(items, k + 1, Len(items))

\* the Remove button of the k-th entry is pressed while the entries shown are
\* the stored items
C23_RemoveShown(k) ==
  /\ lastOp'.op = "remove" /\ lastOp'.idx = k
  /\ sessionCart.present /\ DisplayShows(sessionCart.items)

\* C23 (as claimed): for a name without " - $" that does not begin with a
\* count-looking prefix, the name Remove parses from the rendered text is the
\* item's name and Remove deletes the item; for a name with " - $" or such a
\* prefix the parse does not recover the name.
C23_DollarStep ==
  \A k \in 1..Len(cartDom) : C23_RemoveShown(k) =>
    LET it == sessionCart.items[k]
        got == removedName(cartDom[k])
    IN IF ~hasText(it.name, <<" ","-"," ","$">>) /\ ~CountPrefixed(it.name)
         THEN got = it.name /\ sessionCart'.items = WithoutItem(sessionCart.items, k)
         ELSE got # it.name

C23_RecoveredUnlessDollarOrCount == [][C23_DollarStep]_vars

\* C23 (amended): the name Remove parses is the item's name, and Remove deletes
\* the item, exactly when the name with a space put before and after it does
\* not contain " - "; otherwise the parse yields another text and the item
\* stays in the stored cart.
C23_PaddedStep ==
  \A k \in 1..Len(cartDom) : C23_RemoveShown(k) =>
    LET it == sessionCart.items[k]
        got == removedName(cartDom[k])
    IN IF ~hasText(<<" ">> \o it.name \o <<" ">>, <<" ","-"," ">>)
         THEN got = it.name /\ sessionCart'.items = WithoutItem(sessionCart.items, k)
         ELSE /\ got # it.name
              /\ \E i \in 1..Len(sessionCart'.items) : sessionCart'.items[i] = it

C23_RecoveredUnlessDashPadded == [][C23_PaddedStep]_vars

\* the entry of a name with " - " has been removed from the page and its item
\* is still stored
C23_Witness ==
  /\ lastOp.op = "remove" /\ sessionCart.present
  /\ Len(cartDom) < Len(sessionCart.items)
  /\ \E i \in 1..Len(sessionCart.items) : sessionCart.items[i].name = PieDashA

\* C29: an accepted Add for a product changes only that product's line item:
\* every other stored item keeps its name, price, customization list and place
\* among the others, and the product's item, when it was in the cart, keeps the
\* unit price it was stored with.
C29_AddStep ==
  (lastOp'.op = "add" /\ lastOp'.accepted) =>
    LET P == lastOp'.name
        others(c) == SelectSeq(c, LAMBDA it : it.name # P)
        was == LinesOf(sessionCart.items, P)
        is == LinesOf(sessionCart'.items, P)
    IN /\ others(sessionCart'.items) = others(sessionCart.items)
       /\ Len(is) = 1
       /\ was # <<>> => is[1].price = was[1].price

C29_AddChangesOnlyItsItem == [][C29_AddStep]_vars

\* a product stored at an earlier price has been added again, beside another
C29_Witness ==
  /\ lastOp.op = "add" /\ lastOp.accepted /\ lastOp.n > 0
  /\ Len(sessionCart.items) >= 2
  /\ LinesOf(sessionCart.items, lastOp.name)[1].price # PriceOf(lastOp.name)

(***************************************************************************)
(* The catalog API (faq.js, second half): the store.                       *)
(***************************************************************************)
SERVER_ERROR == "The server encountered an error, please try again later."
PRODUCT_404_ERR == "Product not found"
INVALID_QUERY_ERR == "Invalid query parameter(s)"
MISSING_DESC_PARAMS == "Missing one or more of the required parameters: product, flavor, box."

\* the order of the characters under the case-insensitive collation of the store
CollationChars == <<" ", "%", "(", ")", "-", "_">> \o DigitChars \o LowerChars
charRank(c) ==
  LET l == lowerChar(c)
  IN IF \E i \in 1..Len(CollationChars) : CollationChars[i] = l
       THEN CHOOSE i \in 1..Len(CollationChars) : CollationChars[i] = l
       ELSE 0

\* a < b under the collation
RECURSIVE textLess(_, _)
textLess(a, b) ==
  IF b = <<>> THEN FALSE
  ELSE IF a = <<>> THEN TRUE
  ELSE IF charRank(a[1]) # charRank(b[1]) THEN charRank(a[1]) < charRank(b[1])
  ELSE textLess(Tail(a), Tail(b))

\* name = ? under the collation
textEqual(a, b) == toLowerCase(a) = toLowerCase(b)

\* s LIKE p: "%" matches any run of characters, "_" any one character
RECURSIVE likeMatch(_, _)
likeMatch(p, s) ==
  IF p = <<>> THEN s = <<>>
  ELSE IF p[1] = "%"
    THEN likeMatch(Tail(p), s) \/ (s # <<>> /\ likeMatch(p, Tail(s)))
  ELSE /\ s # <<>>
       /\ (p[1] = "_" \/ lowerChar(p[1]) = lowerChar(s[1]))
       /\ likeMatch(Tail(p), Tail(s))

\* the sequences that list the rows of the set S once each
SeqsOf(S) ==
  {q \in [1..Cardinality(S) -> S] : \A i, j \in 1..Cardinality(S) : i # j => q[i] # q[j]}

\* ORDER BY key [asc | desc]: the orders the store may return the rows in
ordered(q, sort, direction) ==
  \A i \in 1..(Len(q) - 1) :
    LET a == IF direction = <<"d","e","s","c">> THEN q[i + 1] ELSE q[i]
        b == IF direction = <<"d","e","s","c">> THEN q[i] ELSE q[i + 1]
    IN IF sort = <<"n","a","m","e">> THEN ~textLess(b.name, a.name)
       ELSE IF sort = <<"p","r","i","c","e">> THEN a.price <= b.price
       ELSE TRUE

\* getProductsListFiltered: the patterns "%" + word + "%" of the query
likePatterns(contains) ==
  LET words == split(contains, "-")
  IN [i \in 1..Len(words) |-> <<"%">> \o words[i] \o <<"%">>]

\* getProductsListFiltered: the row sequences the query may return
getProductsListFiltered(tbl, contains, sort, direction) ==
  LET pats == likePatterns(contains)
      hit == {tbl[n] : n \in {m \in DOMAIN tbl :
                                \A i \in 1..Len(pats) : likeMatch(pats[i], tbl[m].name)}}
  IN {q \in SeqsOf(hit) : ordered(q, sort, direction)}

\* "SELECT ... FROM products WHERE name = ?": the rows, as a sequence
selectByName(tbl, product) ==
  LET hit == {tbl[n] : n \in {m \in DOMAIN tbl : textEqual(tbl[m].name, product)}}
  IN IF hit = {} THEN <<>> ELSE <<CHOOSE r \in hit : TRUE>>

\* a mutated getProduct, which does not throw for an empty result
getProduct_NoThrow(tbl, product) ==
  [threw |-> FALSE, rows |-> selectByName(tbl, product)]

\* getProduct: throws PRODUCT_404_ERR when no row matches
getProduct(tbl, product) ==
  LET rows == selectByName(tbl, product)
  IN [threw |-> rows = <<>>, rows |-> rows]

\* getDescription: throws PRODUCT_404_ERR when no row matches
getDescription(tbl, product) ==
  LET rows == selectByName(tbl, product)
  IN [threw |-> rows = <<>>, rows |-> rows]

(***************************************************************************)
(* The catalog API: middleware, handlers, error handler.                   *)
(***************************************************************************)
\* errorHandler: sends err.message as text, with the status set before
errorHandler(r, message) ==
  [r EXCEPT !.sent = TRUE, !.kind = "text", !.text = <<message>>]

\* res.json(rows) / res.json(row)
sendJson(r, kind, rows) == [r EXCEPT !.sent = TRUE, !.kind = kind, !.rows = rows]

\* res.type("text"); res.send(text)
sendText(r, text) == [r EXCEPT !.sent = TRUE, !.kind = "text", !.text = text]

\* the catch block of a handler for a failure that is not PRODUCT_404_ERR
serverError(r) == errorHandler([r EXCEPT !.status = 500], SERVER_ERROR)

Receive(r, pc) ==
  /\ srvPc = "idle"
  /\ reqIn' = r
  /\ req' = r
  /\ res' = NewRes
  /\ srvPc' = pc
  /\ conns' = 0
  /\ dbCalls' = 0
  /\ queries' = <<>>
  /\ storeFailed' = FALSE
  /\ composed' = FALSE
  /\ UNCHANGED tables

\* ---- GET /products
ContainsInputs ==
  { Absent, Given(<<>>), Given(<<"c","a","k","e">>), Given(<<"P","I","E">>),
    Given(<<"c","a","k","e"," ","p","o","p","s">>), Given(<<"p","o","p","s","-","c","a","k","e">>),
    Given(<<"_">>), Given(<<"z","z">>) }
SortInputs ==
  { Absent, Given(<<>>), Given(<<"n","a","m","e">>), Given(<<"N","A","M","E">>),
    Given(<<"P","r","i","c","e">>), Given(<<"s","i","z","e">>) }
DirectionInputs ==
  { Absent, Given(<<"a","s","c">>), Given(<<"D","E","S","C">>), Given(<<"u","p">>) }

RecvProducts ==
  \E c \in ContainsInputs, st \in SortInputs, d \in DirectionInputs :
    Receive([NoReq EXCEPT !.ep = "products", !.contains = c, !.sort = st, !.direction = d],
            "validateProductsQuery")

\* a mutated queryInvalid, which looks at the sort parameter only
queryInvalid_SortOnly(sort, direction) ==
  sort # <<"n","a","m","e">> /\ sort # <<"p","r","i","c","e">>

\* validateProductsQuery: the test that rejects the query
queryInvalid(sort, direction) ==
  (sort # <<"n","a","m","e">> /\ sort # <<"p","r","i","c","e">>)
    \/ (direction # <<"a","s","c">> /\ direction # <<"d","e","s","c">>)

validateProductsQuery ==
  /\ srvPc = "validateProductsQuery"
  /\ LET contains == IF falsy(req.contains) THEN <<>> ELSE req.contains.val
         sort0 == IF falsy(req.sort) THEN <<"n","a","m","e">> ELSE req.sort.val
         dir0 == IF falsy(req.direction) THEN <<"a","s","c">> ELSE req.direction.val
         sort == toLowerCase(sort0)
         direction == toLowerCase(dir0)
     IN /\ req' = [req EXCEPT !.contains = Given(formatDashes(contains)),
                              !.sort = Given(sort), !.direction = Given(direction)]
        /\ IF queryInvalid(sort, direction)
             THEN /\ res' = errorHandler([res EXCEPT !.status = 400], INVALID_QUERY_ERR)
                  /\ srvPc' = "done"
             ELSE /\ srvPc' = "products_getDB"
                  /\ UNCHANGED res
  /\ UNCHANGED <<tables, reqIn, conns, dbCalls, queries, storeFailed, composed>>

\* await getDB() in a handler: a connection, or the catch block with db undefined
handlerGetDB(pc, next) ==
  /\ srvPc = pc
  /\ dbCalls' = dbCalls + 1
  /\ \E ok \in BOOLEAN :
       IF ok
         THEN /\ conns' = conns + 1
              /\ srvPc' = next
              /\ UNCHANGED <<res, storeFailed>>
         ELSE /\ res' = serverError(res)
              /\ storeFailed' = TRUE
              /\ srvPc' = "done"
              /\ UNCHANGED conns
  /\ UNCHANGED <<tables, reqIn, req, queries, composed>>

ProductsGetDB == handlerGetDB("products_getDB", "products_query")

ProductsQuery ==
  /\ srvPc = "products_query"
  /\ queries' = Append(queries, "getProductsListFiltered")
  /\ \/ \E rows \in getProductsListFiltered(products, req.contains.val, req.sort.val,
                                            req.direction.val) :
          /\ res' = sendJson(res, "jsonArray", rows)
          /\ UNCHANGED storeFailed
     \/ /\ res' = serverError(res)
        /\ storeFailed' = TRUE
  /\ conns' = conns - 1
  /\ srvPc' = "done"
  /\ UNCHANGED <<tables, reqIn, req, dbCalls, composed>>

\* ---- GET /products/:product
ProductParams ==
  { <<"c","a","k","e">>, <<"c","a","k","e","-","p","o","p","s">>,
    <<"C","A","K","E","-","P","O","P","S">>, <<"p","i","e">>,
    <<"c","a","k","e","-","p","o","p">>, <<"t","a","r","t">> }

RecvProduct ==
  \E n \in ProductParams :
    Receive([NoReq EXCEPT !.ep = "product", !.product = Given(n)], "product_getDB")

ProductGetDB == handlerGetDB("product_getDB", "product_query")

ProductQuery ==
  /\ srvPc = "product_query"
  /\ queries' = Append(queries, "getProduct")
  /\ \/ LET r == getProduct(products, formatTitleCase(req.product.val))
        IN /\ res' = IF r.threw
                       THEN errorHandler([res EXCEPT !.status = 400], PRODUCT_404_ERR)
                       ELSE sendJson(res, "jsonObject",
                                     IF r.rows = <<>> THEN <<>> ELSE <<r.rows[1]>>)
           /\ UNCHANGED storeFailed
     \/ /\ res' = serverError(res)
        /\ storeFailed' = TRUE
  /\ conns' = conns - 1
  /\ srvPc' = "done"
  /\ UNCHANGED <<tables, reqIn, req, dbCalls, composed>>

\* ---- POST /custom-description
DescProducts ==
  { Absent, Given(<<>>), Given(<<"C","a","k","e">>), Given(<<"c","a","k","e","-","p","o","p","s">>),
    Given(<<"T","a","r","t">>) }
DescFlavors == { Absent, Given(<<"lemon">>), Given(<<"chocolate", " ", "cream">>) }
DescBoxes == { Absent, Given(<<>>), Given(<<"bow">>) }

RecvCustomDesc ==
  \E n \in DescProducts, f \in DescFlavors, b \in DescBoxes :
    Receive([NoReq EXCEPT !.ep = "customDesc", !.product = n, !.flavor = f, !.box = b],
            "validateDescParams")

\* a mutated descParamsMissing, which looks at the product only
descParamsMissing_ProductOnly(body) == falsy(body.product)

\* validateDescParams: the test for a missing parameter
descParamsMissing(body) == falsy(body.product) \/ falsy(body.flavor) \/ falsy(body.box)

\* validateDescParams, up to its first await
validateDescParams ==
  /\ srvPc = "validateDescParams"
  /\ IF descParamsMissing(req)
       THEN /\ res' = errorHandler([res EXCEPT !.status = 400], MISSING_DESC_PARAMS)
            /\ srvPc' = "done"
            /\ UNCHANGED req
       ELSE /\ req' = [req EXCEPT !.product = Given(formatTitleCase(req.product.val))]
            /\ srvPc' = "validateDesc_getDB"
            /\ UNCHANGED res
  /\ UNCHANGED <<tables, reqIn, conns, dbCalls, queries, storeFailed, composed>>

\* validateDescParams, await getDB(): a rejection here is caught by nothing,
\* and the request gets no response
ValidateDescGetDB ==
  /\ srvPc = "validateDesc_getDB"
  /\ dbCalls' = dbCalls + 1
  /\ \E ok \in BOOLEAN :
       IF ok
         THEN /\ conns' = conns + 1
              /\ srvPc' = "validateDesc_query"
              /\ UNCHANGED storeFailed
         ELSE /\ storeFailed' = TRUE
              /\ srvPc' = "hung"
              /\ UNCHANGED conns
  /\ UNCHANGED <<tables, reqIn, req, res, queries, composed>>

\* validateDescParams: rows.length === 0 answers 400, otherwise next()
validateDescFound(rows) == Len(rows) # 0

\* validateDescParams, await db.query(...), db.end(), and the answer
ValidateDescQuery ==
  /\ srvPc = "validateDesc_query"
  /\ queries' = Append(queries, "validateDescParams")
  /\ \/ LET rows == selectByName(products, req.product.val)
        IN /\ conns' = conns - 1
           /\ IF validateDescFound(rows)
                THEN /\ srvPc' = "desc_getDB"
                     /\ UNCHANGED res
                ELSE /\ res' = errorHandler([res EXCEPT !.status = 400], PRODUCT_404_ERR)
                     /\ srvPc' = "done"
           /\ UNCHANGED storeFailed
     \/ /\ storeFailed' = TRUE
        /\ srvPc' = "hung"
        /\ UNCHANGED <<res, conns>>
  /\ UNCHANGED <<tables, reqIn, req, dbCalls, composed>>

DescGetDB == handlerGetDB("desc_getDB", "desc_query")

\* a mutated customDescription, which puts the flavor after the first word
customDescription_FlavorAtOne(description, flavor, box) ==
  LET desc == split(description, " ")
      withFlavor == spliceInsert(desc, 1, flavor)
  IN join(spliceInsert(withFlavor, -1, box), " ")

\* the handler's composition: split(" "), splice(2, 0, flavor), splice(-1, 0, box), join(" ")
customDescription(description, flavor, box) ==
  LET desc == split(description, " ")
      withFlavor == spliceInsert(desc, 2, flavor)
  IN join(spliceInsert(withFlavor, -1, box), " ")

DescQuery ==
  /\ srvPc = "desc_query"
  /\ queries' = Append(queries, "getDescription")
  /\ \/ LET r == getDescription(products, req.product.val)
        IN IF r.threw
             THEN /\ res' = serverError(res)
                  /\ UNCHANGED composed
             ELSE /\ res' = sendText(res, customDescription(r.rows[1].description,
                                                           req.flavor.val, req.box.val))
                  /\ composed' = TRUE
        /\ UNCHANGED storeFailed
     \/ /\ res' = serverError(res)
        /\ storeFailed' = TRUE
        /\ UNCHANGED composed
  /\ conns' = conns - 1
  /\ srvPc' = "done"
  /\ UNCHANGED <<tables, reqIn, req, dbCalls>>

\* ---- GET /flavors/:product
FlavorParams ==
  { <<"p","i","e">>, <<"C","A","K","E","-","p","o","p","s">>, <<"t","a","r","t">> }

RecvFlavors ==
  \E n \in FlavorParams :
    Receive([NoReq EXCEPT !.ep = "flavors", !.product = Given(n)], "flavors_getDB")

FlavorsGetDB == handlerGetDB("flavors_getDB", "flavors_query")

\* "SELECT * FROM products_flavors WHERE product = ?": the rows, as a set
selectFlavors(fl, product) == {r \in fl : textEqual(r.product, product)}

\* a mutated getProductFlavors, which takes an empty flavor list for a missing product
getProductFlavors_ThrowsOnEmpty(tbl, fl, product) ==
  [threw |-> selectFlavors(fl, product) = {}, rows |-> selectFlavors(fl, product)]

\* getProductFlavors: getProduct throws PRODUCT_404_ERR for a missing product,
\* then the flavor rows of the product
getProductFlavors(tbl, fl, product) ==
  [threw |-> getProduct(tbl, product).threw, rows |-> selectFlavors(fl, product)]

\* the handler's loop: flavors.push(productFlavors[i].flavor)
flavorNames(rows) == [i \in 1..Len(rows) |-> rows[i].flavor]

FlavorsQuery ==
  /\ srvPc = "flavors_query"
  /\ \/ LET r == getProductFlavors(products, flavors, formatTitleCase(req.product.val))
        IN /\ IF r.threw
                THEN /\ res' = errorHandler([res EXCEPT !.status = 400], PRODUCT_404_ERR)
                     /\ queries' = Append(queries, "getProduct")
                ELSE /\ \E rows \in SeqsOf(r.rows) :
                          res' = sendJson(res, "jsonArray", flavorNames(rows))
                     /\ queries' = queries \o <<"getProduct", "getProductFlavors">>
           /\ UNCHANGED storeFailed
     \/ /\ res' = serverError(res)
        /\ storeFailed' = TRUE
        /\ \E q \in {<<"getProduct">>, <<"getProduct", "getProductFlavors">>} :
             queries' = queries \o q
  /\ conns' = conns - 1
  /\ srvPc' = "done"
  /\ UNCHANGED <<tables, reqIn, req, dbCalls, composed>>

\* ---- POST /contact-us
FORM_MISSING == "Missing one or more of the required parameters: name, email and message."
INVALID_EMAIL == "Invalid email. Must contain '@'."
CONFIRMATION == "Message successfully submitted! Thank you!"

ContactNames == { Absent, Given(<<"Ann">>) }
ContactEmails ==
  { Absent, Given(<<>>), Given(<<"a","b">>), Given(<<"a","@","b">>),
    Given(<<"A","@","B">>), Given(<<"c","@","d">>) }
ContactMessages == { Given(<<>>), Given(<<"hi">>), Given(<<"bye">>) }

RecvContact ==
  \E n \in ContactNames, e \in ContactEmails, m \in ContactMessages :
    Receive([NoReq EXCEPT !.ep = "contact", !.name = n, !.email = e, !.message = m],
            "validateForm")

\* String.prototype.includes, for a one-character needle
includes(s, ch) == \E i \in 1..Len(s) : s[i] = ch

\* a mutated formInvalid, which does not look for the "@"
formInvalid_NoAtTest(body) ==
  IF falsy(body.name) \/ falsy(body.email) \/ falsy(body.message) THEN <<FORM_MISSING>>
  ELSE <<>>

\* validateForm: the message of the error it passes on, or none
formInvalid(body) ==
  IF falsy(body.name) \/ falsy(body.email) \/ falsy(body.message) THEN <<FORM_MISSING>>
  ELSE IF ~includes(body.email.val, "@") THEN <<INVALID_EMAIL>>
  ELSE <<>>

validateForm ==
  /\ srvPc = "validateForm"
  /\ LET err == formInvalid(req)
     IN IF err # <<>>
          THEN /\ res' = errorHandler([res EXCEPT !.status = 400], err[1])
               /\ srvPc' = "done"
          ELSE /\ srvPc' = "contact_getDB"
               /\ UNCHANGED res
  /\ UNCHANGED <<tables, reqIn, req, conns, dbCalls, queries, storeFailed, composed>>

ContactGetDB == handlerGetDB("contact_getDB", "contact_query")

\* a mutated recordMessage, which replaces the row of an email already stored
recordMessage_Replaces(fb, name, email, message) ==
  [threw |-> FALSE,
   table |-> {r \in fb : ~textEqual(r.email, email)}
               \cup {[email |-> email, name |-> name, message |-> message]}]

\* recordMessage: the INSERT; the primary key email rejects a second row
recordMessage(fb, name, email, message) ==
  LET dup == \E r \in fb : textEqual(r.email, email)
  IN [threw |-> dup,
      table |-> IF dup THEN fb
                ELSE fb \cup {[email |-> email, name |-> name, message |-> message]}]

ContactQuery ==
  /\ srvPc = "contact_query"
  /\ queries' = Append(queries, "recordMessage")
  /\ \/ LET r == recordMessage(feedback, req.name.val, req.email.val, req.message.val)
        IN /\ feedback' = r.table
           /\ IF r.threw
                THEN /\ res' = serverError(res)
                     /\ UNCHANGED accepted
                ELSE /\ res' = sendText(res, <<CONFIRMATION>>)
                     /\ accepted' = Append(accepted, [email |-> req.email.val,
                                              name |-> req.name.val,
                                              message |-> req.message.val])
           /\ UNCHANGED storeFailed
     \/ /\ res' = serverError(res)
        /\ storeFailed' = TRUE
        /\ UNCHANGED <<feedback, accepted>>
  /\ conns' = conns - 1
  /\ srvPc' = "done"
  /\ UNCHANGED <<products, flavors, macaronFlavors, faq, reqIn, req, dbCalls, composed>>

\* ---- GET /macaron-flavors and GET /faq
RecvMacaronFlavors == Receive([NoReq EXCEPT !.ep = "macaron-flavors"], "macarons_getDB")

MacaronsGetDB == handlerGetDB("macarons_getDB", "macarons_query")

\* "SELECT * FROM macaron_flavors;"
getMacaronFlavors(tbl) == SeqsOf(tbl)

\* "SELECT question, answer FROM faq;"
getFAQ(tbl) == SeqsOf({[question |-> r.question, answer |-> r.answer] : r \in tbl})

\* the handlers of the two lists: one query, the rows as the JSON body
listQuery(pc, query, lists) ==
  /\ srvPc = pc
  /\ queries' = Append(queries, query)
  /\ \/ /\ \E rows \in lists : res' = sendJson(res, "jsonArray", rows)
        /\ UNCHANGED storeFailed
     \/ /\ res' = serverError(res)
        /\ storeFailed' = TRUE
  /\ conns' = conns - 1
  /\ srvPc' = "done"
  /\ UNCHANGED <<tables, reqIn, req, dbCalls, composed>>

MacaronsQuery == listQuery("macarons_query", "getMacaronFlavors", getMacaronFlavors(macaronFlavors))

RecvFaq == Receive([NoReq EXCEPT !.ep = "faq"], "faq_getDB")

FaqGetDB == handlerGetDB("faq_getDB", "faq_query")

FaqQuery == listQuery("faq_query", "getFAQ", getFAQ(faq))

\* ---- GET /featured and GET /box-decorations: a file read, no store
FeaturedLines == <<<<"c","a","k","e">>, <<"c","a","k","e","-","p","o","p","s">>>>
BoxLines == <<<<"p","l","a","i","n">>, <<"b","o","w">>>>

RecvFeatured == Receive([NoReq EXCEPT !.ep = "featured"], "featured_read")

RecvBoxDecorations == Receive([NoReq EXCEPT !.ep = "box-decorations"], "boxes_read")

\* fs.readFile, then every line in title case, joined by newlines
readLines(pc, lines) ==
  /\ srvPc = pc
  /\ \/ res' = sendText(res, join([i \in 1..Len(lines) |-> formatTitleCase(lines[i])], "\n"))
     \/ res' = serverError(res)
  /\ srvPc' = "done"
  /\ UNCHANGED <<tables, reqIn, req, conns, dbCalls, queries, storeFailed, composed>>

ReadFeatured == readLines("featured_read", FeaturedLines)

ReadBoxDecorations == readLines("boxes_read", BoxLines)

\* the request is over; the next one starts from a fresh request and response
Finish ==
  /\ srvPc \in {"done", "hung"}
  /\ srvPc' = "idle"
  /\ reqIn' = NoReq
  /\ req' = NoReq
  /\ res' = NewRes
  /\ conns' = 0
  /\ dbCalls' = 0
  /\ queries' = <<>>
  /\ storeFailed' = FALSE
  /\ composed' = FALSE
  /\ UNCHANGED tables

\* the products table: every product with the first 1..MaxDescToks words of
\* its description; the products_flavors table: the seeded rows, with or
\* without those of one product; the feedback table: empty
InitServer ==
  /\ \E k \in [ProductNames -> 1..MaxDescToks] :
       products = [n \in ProductNames |-> ProductRow(n, k[n])]
  /\ \E bare \in SUBSET {Pie} : flavors = {r \in SeedFlavors : r.product \notin bare}
  /\ macaronFlavors = SeedMacaronFlavors
  /\ faq = SeedFaq
  /\ feedback = {}
  /\ accepted = <<>>
  /\ SrvIdle
  /\ href = "products.html"
  /\ loaded = FALSE
  /\ sessionCart = AbsentCart
  /\ cartDom = <<>>
  /\ cartCount = InitialCountText
  /\ totalPrice = InitialTotalText
  /\ lastOp = NoOp
  /\ added = [p \in ProductNames |-> 0]
  /\ CliQuiet /\ FmtQuiet

NextServer ==
  \/ RecvProducts /\ UNCHANGED <<cartVars, cliVars, fmtVars>>
  \/ validateProductsQuery /\ UNCHANGED <<cartVars, cliVars, fmtVars>>
  \/ ProductsGetDB /\ UNCHANGED <<cartVars, cliVars, fmtVars>>
  \/ ProductsQuery /\ UNCHANGED <<cartVars, cliVars, fmtVars>>
  \/ RecvProduct /\ UNCHANGED <<cartVars, cliVars, fmtVars>>
  \/ ProductGetDB /\ UNCHANGED <<cartVars, cliVars, fmtVars>>
  \/ ProductQuery /\ UNCHANGED <<cartVars, cliVars, fmtVars>>
  \/ RecvCustomDesc /\ UNCHANGED <<cartVars, cliVars, fmtVars>>
  \/ validateDescParams /\ UNCHANGED <<cartVars, cliVars, fmtVars>>
  \/ ValidateDescGetDB /\ UNCHANGED <<cartVars, cliVars, fmtVars>>
  \/ ValidateDescQuery /\ UNCHANGED <<cartVars, cliVars, fmtVars>>
  \/ DescGetDB /\ UNCHANGED <<cartVars, cliVars, fmtVars>>
  \/ DescQuery /\ UNCHANGED <<cartVars, cliVars, fmtVars>>
  \/ RecvFlavors /\ UNCHANGED <<cartVars, cliVars, fmtVars>>
  \/ FlavorsGetDB /\ UNCHANGED <<cartVars, cliVars, fmtVars>>
  \/ FlavorsQuery /\ UNCHANGED <<cartVars, cliVars, fmtVars>>
  \/ Finish /\ UNCHANGED <<cartVars, cliVars, fmtVars>>

SpecServer == InitServer /\ [][NextServer]_vars

\* the contact form's endpoint on its own, over the seeded catalog
InitContact == InitCartPages /\ SrvQuiet /\ CliQuiet /\ FmtQuiet

NextContact ==
  \/ RecvContact /\ UNCHANGED <<cartVars, cliVars, fmtVars>>
  \/ validateForm /\ UNCHANGED <<cartVars, cliVars, fmtVars>>
  \/ ContactGetDB /\ UNCHANGED <<cartVars, cliVars, fmtVars>>
  \/ ContactQuery /\ UNCHANGED <<cartVars, cliVars, fmtVars>>
  \/ Finish /\ UNCHANGED <<cartVars, cliVars, fmtVars>>

SpecContact == InitContact /\ [][NextContact]_vars

\* every endpoint of the API, over the seeded store
InitApi ==
  /\ href = "products.html"
  /\ loaded = FALSE
  /\ sessionCart = AbsentCart
  /\ cartDom = <<>>
  /\ cartCount = InitialCountText
  /\ totalPrice = InitialTotalText
  /\ lastOp = NoOp
  /\ added = [p \in ProductNames |-> 0]
  /\ SrvQuiet /\ CliQuiet /\ FmtQuiet

NextApi ==
  \/ RecvProducts /\ UNCHANGED <<cartVars, cliVars, fmtVars>>
  \/ validateProductsQuery /\ UNCHANGED <<cartVars, cliVars, fmtVars>>
  \/ ProductsGetDB /\ UNCHANGED <<cartVars, cliVars, fmtVars>>
  \/ ProductsQuery /\ UNCHANGED <<cartVars, cliVars, fmtVars>>
  \/ RecvProduct /\ UNCHANGED <<cartVars, cliVars, fmtVars>>
  \/ ProductGetDB /\ UNCHANGED <<cartVars, cliVars, fmtVars>>
  \/ ProductQuery /\ UNCHANGED <<cartVars, cliVars, fmtVars>>
  \/ RecvCustomDesc /\ UNCHANGED <<cartVars, cliVars, fmtVars>>
  \/ validateDescParams /\ UNCHANGED <<cartVars, cliVars, fmtVars>>
  \/ ValidateDescGetDB /\ UNCHANGED <<cartVars, cliVars, fmtVars>>
  \/ ValidateDescQuery /\ UNCHANGED <<cartVars, cliVars, fmtVars>>
  \/ DescGetDB /\ UNCHANGED <<cartVars, cliVars, fmtVars>>
  \/ DescQuery /\ UNCHANGED <<cartVars, cliVars, fmtVars>>
  \/ RecvFlavors /\ UNCHANGED <<cartVars, cliVars, fmtVars>>
  \/ FlavorsGetDB /\ UNCHANGED <<cartVars, cliVars, fmtVars>>
  \/ FlavorsQuery /\ UNCHANGED <<cartVars, cliVars, fmtVars>>
  \/ RecvMacaronFlavors /\ UNCHANGED <<cartVars, cliVars, fmtVars>>
  \/ MacaronsGetDB /\ UNCHANGED <<cartVars, cliVars, fmtVars>>
  \/ MacaronsQuery /\ UNCHANGED <<cartVars, cliVars, fmtVars>>
  \/ RecvFaq /\ UNCHANGED <<cartVars, cliVars, fmtVars>>
  \/ FaqGetDB /\ UNCHANGED <<cartVars, cliVars, fmtVars>>
  \/ FaqQuery /\ UNCHANGED <<cartVars, cliVars, fmtVars>>
  \/ RecvFeatured /\ UNCHANGED <<cartVars, cliVars, fmtVars>>
  \/ ReadFeatured /\ UNCHANGED <<cartVars, cliVars, fmtVars>>
  \/ RecvBoxDecorations /\ UNCHANGED <<cartVars, cliVars, fmtVars>>
  \/ ReadBoxDecorations /\ UNCHANGED <<cartVars, cliVars, fmtVars>>
  \/ RecvContact /\ UNCHANGED <<cartVars, cliVars, fmtVars>>
  \/ validateForm /\ UNCHANGED <<cartVars, cliVars, fmtVars>>
  \/ ContactGetDB /\ UNCHANGED <<cartVars, cliVars, fmtVars>>
  \/ ContactQuery /\ UNCHANGED <<cartVars, cliVars, fmtVars>>
  \/ Finish /\ UNCHANGED <<cartVars, cliVars, fmtVars>>

SpecApi == InitApi /\ [][NextApi]_vars

\* C21: no request to any endpoint changes the products, macaron-flavor,
\* product-flavor or FAQ data; the only change of the store is the insertion of
\* exactly one feedback row by a POST /contact-us answered with the confirmation.
C21_StoreStep ==
  /\ products' = products /\ flavors' = flavors
  /\ macaronFlavors' = macaronFlavors /\ faq' = faq
  /\ feedback' # feedback =>
       /\ reqIn.ep = "contact"
       /\ \E row \in feedback' \ feedback : feedback' = feedback \cup {row}
       /\ res'.status = 200 /\ res'.sent /\ res'.text = <<CONFIRMATION>>
  /\ (reqIn.ep = "contact" /\ res'.sent /\ res'.status = 200) => feedback' # feedback

C21_OnlyFeedbackInserted == [][C21_StoreStep]_vars

\* a feedback row has been inserted and a later request has read the catalog
C21_Witness ==
  /\ feedback # {}
  /\ reqIn.ep = "products" /\ srvPc = "done" /\ res.sent /\ res.status = 200

(***************************************************************************)
(* Claims about the catalog API.                                           *)
(***************************************************************************)
NameText == <<"n","a","m","e">>
PriceText == <<"p","r","i","c","e">>
AscText == <<"a","s","c">>
DescText == <<"d","e","s","c">>

\* C6 (as stated): GET /products accepts a request exactly when sort (lowercased,
\* "name" when absent) is name or price and direction (lowercased, "asc" when
\* absent) is asc or desc; every other request is answered 400 with the
\* invalid-query message, without a store connection and without the query.
C6_AcceptedWhenAbsentDefaults ==
  (reqIn.ep = "products" /\ srvPc # "validateProductsQuery") =>
    LET sort == IF reqIn.sort.given THEN toLowerCase(reqIn.sort.val) ELSE NameText
        direction == IF reqIn.direction.given THEN toLowerCase(reqIn.direction.val)
                     ELSE AscText
    IN IF sort \in {NameText, PriceText} /\ direction \in {AscText, DescText}
         THEN res.status # 400 /\ srvPc \in {"products_getDB", "products_query", "done"}
         ELSE /\ srvPc = "done" /\ res.sent /\ res.status = 400
              /\ res.kind = "text" /\ res.text = <<INVALID_QUERY_ERR>>
              /\ dbCalls = 0 /\ conns = 0 /\ queries = <<>>

\* C6 (amended): the same, with the defaults taken when the parameter is absent
\* or the empty string.
C6_AcceptedWhenFalsyDefaults ==
  (reqIn.ep = "products" /\ srvPc # "validateProductsQuery") =>
    LET sort == IF reqIn.sort.given /\ reqIn.sort.val # <<>>
                  THEN toLowerCase(reqIn.sort.val) ELSE NameText
        direction == IF reqIn.direction.given /\ reqIn.direction.val # <<>>
                       THEN toLowerCase(reqIn.direction.val) ELSE AscText
    IN IF sort \in {NameText, PriceText} /\ direction \in {AscText, DescText}
         THEN res.status # 400 /\ srvPc \in {"products_getDB", "products_query", "done"}
         ELSE /\ srvPc = "done" /\ res.sent /\ res.status = 400
              /\ res.kind = "text" /\ res.text = <<INVALID_QUERY_ERR>>
              /\ dbCalls = 0 /\ conns = 0 /\ queries = <<>>

\* a request with a valid sort in upper case and a malformed direction was rejected
C6_Witness ==
  /\ srvPc = "done" /\ reqIn.ep = "products"
  /\ reqIn.sort = Given(<<"N","A","M","E">>) /\ reqIn.direction = Given(<<"u","p">>)
  /\ res.status = 400

\* C7: for every contains filter and valid sort/direction pair, GET /products
\* returns exactly the products whose name contains each dash-separated token of
\* the filter as a case-insensitive substring, non-decreasing in the chosen field
\* for asc and non-increasing for desc; with no parameters, the whole catalog in
\* ascending name order.
C7_ContainsToken(name, tok) == indexOf(toLowerCase(name), toLowerCase(tok)) # -1

C7_FilteredAndSorted ==
  (srvPc = "done" /\ reqIn.ep = "products" /\ res.status = 200) =>
    LET filter == IF reqIn.contains.given THEN formatDashes(reqIn.contains.val) ELSE <<>>
        toks == split(filter, "-")
        expected == {products[n] : n \in {m \in DOMAIN products :
                       \A i \in 1..Len(toks) : C7_ContainsToken(products[m].name, toks[i])}}
        rows == res.rows
    IN /\ res.kind = "jsonArray"
       /\ {rows[i] : i \in 1..Len(rows)} = expected
       /\ Len(rows) = Cardinality(expected)
       /\ \A i \in 1..(Len(rows) - 1) :
            IF req.sort.val = NameText
              THEN IF req.direction.val = AscText
                     THEN ~textLess(rows[i + 1].name, rows[i].name)
                     ELSE ~textLess(rows[i].name, rows[i + 1].name)
              ELSE IF req.direction.val = AscText
                     THEN rows[i].price <= rows[i + 1].price
                     ELSE rows[i].price >= rows[i + 1].price

\* C8: GET /products/:name for a name that matches no product answers 400 with
\* the body "Product not found", never 200; for a name that matches it answers
\* 200 with that product's object.  (A store failure answers 500 in both cases.)
C8_Names(param, name) == toLowerCase(join(split(param, "-"), " ")) = toLowerCase(name)

C8_NotFoundIs400 ==
  (srvPc = "done" /\ reqIn.ep = "product") =>
    LET hits == {n \in DOMAIN products : C8_Names(reqIn.product.val, products[n].name)}
    IN IF hits = {}
         THEN /\ res.status # 200
              /\ ~storeFailed => /\ res.status = 400 /\ res.kind = "text"
                                 /\ res.text = <<PRODUCT_404_ERR>>
         ELSE ~storeFailed => /\ res.status = 200 /\ res.kind = "jsonObject"
                              /\ \E n \in hits : res.rows = <<products[n]>>

\* the request for "tart", which no product is named, has been answered
C8_Witness ==
  /\ srvPc = "done" /\ reqIn.ep = "product" /\ ~storeFailed
  /\ reqIn.product = Given(<<"t","a","r","t">>)
  /\ res.status = 400

\* C9: for a product whose stored description has at least 3 tokens, POST
\* /custom-description returns the tokens of the description with the flavor as
\* the third token and the box immediately before the last token, every original
\* token kept, in its order.
C9_FlavorThirdBoxBeforeLast ==
  (srvPc = "done" /\ reqIn.ep = "customDesc" /\ res.status = 200) =>
    \A n \in DOMAIN products :
      C8_Names(reqIn.product.val, products[n].name) =>
        LET T == split(products[n].description, " ")
            len == Len(T)
        IN len >= 3 =>
             /\ res.kind = "text"
             /\ res.text = join(<<T[1], T[2], reqIn.flavor.val>> \o SubSeq(T, 3, len - 1)
                                  \o <<reqIn.box.val, T[len]>>, " ")

\* a description of exactly 3 tokens has been customized for "cake-pops"
C9_Witness ==
  /\ srvPc = "done" /\ reqIn.ep = "customDesc" /\ res.status = 200
  /\ reqIn.product = Given(<<"c","a","k","e","-","p","o","p","s">>)
  /\ Len(split(products[CakePops].description, " ")) = 3
  /\ reqIn.flavor = Given(<<"chocolate", " ", "cream">>)

\* C10: POST /custom-description answers 400 when product, flavor or box is
\* missing, and 400 with the not-found message when the product names no stored
\* product; in both cases no description is composed or returned.
C10_RejectsWithoutComposing ==
  (reqIn.ep = "customDesc") =>
    LET missing == falsy(reqIn.product) \/ falsy(reqIn.flavor) \/ falsy(reqIn.box)
        unknown == ~missing /\ \A n \in DOMAIN products :
                                 ~C8_Names(reqIn.product.val, products[n].name)
    IN /\ (missing \/ unknown) =>
            /\ ~composed
            /\ \A i \in 1..Len(queries) : queries[i] # "getDescription"
            /\ res.sent => res.status = 400 /\ res.kind = "text"
       /\ (missing /\ srvPc = "done") =>
            /\ res.sent /\ res.status = 400 /\ res.text = <<MISSING_DESC_PARAMS>>
            /\ dbCalls = 0
       /\ (unknown /\ srvPc = "done") =>
            res.sent /\ res.status = 400 /\ res.text = <<PRODUCT_404_ERR>>

\* the request for the unknown product "Tart", with flavor and box, has been answered
C10_Witness ==
  /\ srvPc = "done" /\ reqIn.ep = "customDesc"
  /\ reqIn.product = Given(<<"T","a","r","t">>)
  /\ reqIn.flavor.given /\ reqIn.box = Given(<<"bow">>)
  /\ res.status = 400 /\ res.text = <<PRODUCT_404_ERR>>

\* C20: GET /flavors/:name answers 400 with the not-found message exactly when
\* no product has that name; for a product that exists and has no flavor row it
\* answers 200 with an empty array.  (A store failure answers 500.)
C20_NotFoundOnlyForMissingProduct ==
  (srvPc = "done" /\ reqIn.ep = "flavors") =>
    LET hits == {n \in DOMAIN products : C8_Names(reqIn.product.val, products[n].name)}
        mine == {r.flavor : r \in {x \in flavors : \E n \in hits : x.product = n}}
    IN /\ (res.status = 400) <=> (hits = {} /\ ~storeFailed)
       /\ res.status = 400 => res.kind = "text" /\ res.text = <<PRODUCT_404_ERR>>
       /\ (hits # {} /\ ~storeFailed) =>
            /\ res.status = 200 /\ res.kind = "jsonArray"
            /\ {res.rows[i] : i \in 1..Len(res.rows)} = mine
            /\ Len(res.rows) = Cardinality(mine)

\* the flavors of "pie", a product without a flavor row, have been answered
C20_Witness ==
  /\ srvPc = "done" /\ reqIn.ep = "flavors" /\ ~storeFailed
  /\ reqIn.product = Given(<<"p","i","e">>)
  /\ \A r \in flavors : r.product # Pie
  /\ res.status = 200 /\ res.rows = <<>>

(***************************************************************************)
(* Claims about the contact form's endpoint.                               *)
(***************************************************************************)
\* C11: POST /contact-us answers 400 when name, email or message is missing or
\* when the email contains no "@", and then opens no store connection and
\* inserts no feedback row; only a request passing both checks reaches the insert.
C11_Rejected400WithoutStore ==
  (reqIn.ep = "contact" /\ srvPc # "validateForm") =>
    LET missing == falsy(reqIn.name) \/ falsy(reqIn.email) \/ falsy(reqIn.message)
        noAt == ~missing /\ \A i \in 1..Len(reqIn.email.val) : reqIn.email.val[i] # "@"
    IN IF missing \/ noAt
         THEN /\ srvPc = "done" /\ res.sent /\ res.status = 400 /\ res.kind = "text"
              /\ res.text = IF missing THEN <<FORM_MISSING>> ELSE <<INVALID_EMAIL>>
              /\ dbCalls = 0 /\ conns = 0 /\ queries = <<>>
         ELSE res.status # 400

C11_InsertOnlyForValid ==
  \A r \in feedback' \ feedback :
    /\ srvPc = "contact_query"
    /\ ~falsy(reqIn.name) /\ ~falsy(reqIn.email) /\ ~falsy(reqIn.message)
    /\ \E i \in 1..Len(reqIn.email.val) : reqIn.email.val[i] = "@"
    /\ r = [email |-> reqIn.email.val, name |-> reqIn.name.val,
            message |-> reqIn.message.val]

C11_ContactValidated == []C11_Rejected400WithoutStore /\ [][C11_InsertOnlyForValid]_vars

\* a submission whose email has no "@" was rejected while another email is stored
C11_Witness ==
  /\ srvPc = "done" /\ reqIn.ep = "contact"
  /\ reqIn.email = Given(<<"a","b">>) /\ reqIn.name.given /\ reqIn.message = Given(<<"hi">>)
  /\ res.status = 400 /\ res.text = <<INVALID_EMAIL>>
  /\ feedback # {}

\* C12: a valid POST /contact-us whose email already has a stored submission
\* fails with 500 and the generic server-error message and leaves the stored
\* submission unchanged; the feedback store always holds at most one submission
\* per email, the first accepted one.
C12_DuplicateStep ==
  (srvPc = "contact_query" /\ \E r \in feedback : r.email = req.email.val) =>
    /\ res'.sent /\ res'.status = 500 /\ res'.kind = "text" /\ res'.text = <<SERVER_ERROR>>
    /\ feedback' = feedback

C12_FirstAccepted(email) ==
  accepted[CHOOSE i \in 1..Len(accepted) :
             /\ accepted[i].email = email
             /\ \A j \in 1..(i - 1) : accepted[j].email # email]

C12_OnePerEmail ==
  /\ \A r1, r2 \in feedback : r1.email = r2.email => r1 = r2
  /\ \A r \in feedback :
       /\ \E i \in 1..Len(accepted) : accepted[i].email = r.email
       /\ r = C12_FirstAccepted(r.email)
  /\ \A i \in 1..Len(accepted) : \E r \in feedback : r.email = accepted[i].email

C12_DuplicateEmailIs500 == [][C12_DuplicateStep]_vars /\ []C12_OnePerEmail

\* a second submission for a stored email, with another message, was answered 500
C12_Witness ==
  /\ srvPc = "done" /\ reqIn.ep = "contact" /\ ~storeFailed
  /\ res.status = 500
  /\ \E r \in feedback : r.email = reqIn.email.val /\ r.message # reqIn.message.val

(***************************************************************************)
(* Claims about connections and store failures, for every endpoint.        *)
(***************************************************************************)
\* C13: every store connection opened while handling a request, in a handler or
\* in a validation middleware, is closed by the time the handling of the request
\* is over, on every exit path.
C13_ConnectionsClosed == (srvPc \in {"done", "hung"}) => conns = 0

\* C14: a store failure at any step of a request (getDB or a query) ends the
\* request with a 500 response whose body is the generic server-error message;
\* no request is left without a response.
C14_StoreFailureIs500 ==
  storeFailed =>
    /\ srvPc = "done"
    /\ res.sent /\ res.status = 500 /\ res.kind = "text" /\ res.text = <<SERVER_ERROR>>

(***************************************************************************)
(* The pages that fetch: products (part_001), home (part_000), FAQ (faq.js, *)
(* first half) and macaron flavors (flavors.js).  A fetch is a request in   *)
(* flight; its response may arrive in any order with the others, and the    *)
(* code after the awaits runs to its end when it does.                      *)
(***************************************************************************)
\* searches, item views and form submissions the user starts per page load
MaxSequences == 2
\* changes of the selections the user makes per page load
MaxChanges == 2

LOADING == "Response Loading..."
REQUEST_ERROR == "There was an error loading the data. Please try again later."
POST_ERROR == "The server encountered an error. Please try again later."

\* the message of the TypeError a rejected fetch carries, by browser
NetworkErrorTexts == {"Failed to fetch", "NetworkError when attempting to fetch resource."}

\* how a fetch ends: a 2xx response, a rejected fetch, a non-2xx status
Outcomes == {"ok", "network", "status500"}
\* a list of rows is read with json(), which rejects a body that does not parse
JsonOutcomes == Outcomes \cup {"parse"}

NoFetch == [id |-> 0, seq |-> "none", stage |-> "none", text |-> <<>>,
            contains |-> Absent, sort |-> Absent, direction |-> Absent,
            name |-> <<>>, flavor |-> <<>>, box |-> <<>>, email |-> <<>>,
            list |-> <<>>, idx |-> 0]

\* the products table the pages are served from
SeedProducts == [n \in ProductNames |-> ProductRow(n, MaxDescToks)]

\* updateMenu: the "No products found" message
noResults(text) == <<"No products found matching '">> \o text \o <<"'.">>

\* the history record of a step that processed the response of r
responseOp(r, o, rows, issued) ==
  [op |-> "response", id |-> r.id, seq |-> r.seq, outcome |-> o, text |-> r.text,
   rows |-> rows, issued |-> issued]

\* the first request of a page: init() of its script
initialFetch(p) ==
  CASE p = "products" -> [NoFetch EXCEPT !.id = 1, !.seq = "initializeMenu", !.stage = "products"]
    [] p = "home" -> [NoFetch EXCEPT !.id = 1, !.seq = "initializeFeatured", !.stage = "featured"]
    [] p = "faq" -> [NoFetch EXCEPT !.id = 1, !.seq = "initializeFAQ", !.stage = "faq"]
    [] p = "flavors" -> [NoFetch EXCEPT !.id = 1, !.seq = "initializeFlavors",
                                        !.stage = "macaron-flavors"]

\* a page is opened: a new document, whose init() sets "Response Loading..."
\* and issues the first fetch
LoadPage ==
  \E p \in {"products", "home", "faq", "flavors"} :
    /\ page' = p
    /\ results' = <<LOADING>>
    /\ cards' = <<>>
    /\ view' = "list"
    /\ search' = <<>>
    /\ single' = NoSingle
    /\ confirmation' = <<>>
    /\ pending' = {initialFetch(p)}
    /\ nextId' = 2
    /\ started' = 0
    /\ cliOp' = [NoCliOp EXCEPT !.op = "load", !.id = 1, !.seq = initialFetch(p).seq,
                                !.issued = TRUE]
    /\ lastDesc' = NoDesc
    /\ lastQuery' = NoQuery

\* ---- products page: the list
SearchTexts == { <<>>, <<"c","a","k","e">>, <<"z","z">> }
SortChoices == { <<NameText, AscText>>, <<PriceText, DescText>> }

\* the user edits #search
typeSearch ==
  /\ page = "products"
  /\ \E t \in SearchTexts \ {search} : search' = t
  /\ cliOp' = [NoCliOp EXCEPT !.op = "type"]
  /\ UNCHANGED <<page, results, cards, view, single, confirmation, pending, nextId,
                 started, lastDesc, lastQuery>>

\* the rows GET /products may answer a list request with
menuRows(r) ==
  LET contains == IF falsy(r.contains) THEN <<>> ELSE formatDashes(r.contains.val)
      sort == toLowerCase(IF falsy(r.sort) THEN NameText ELSE r.sort.val)
      direction == toLowerCase(IF falsy(r.direction) THEN AscText ELSE r.direction.val)
  IN getProductsListFiltered(SeedProducts, contains, sort, direction)

\* createCard for each row, appended in order
cardsOf(rows, id) == [i \in 1..Len(rows) |-> [name |-> rows[i].name, req |-> id]]

namesOf(rows) == [i \in 1..Len(rows) |-> rows[i].name]

\* initializeMenu, after its awaits: the cards are appended to the section
MenuResponse ==
  \E r \in pending, o \in JsonOutcomes :
    /\ r.seq = "initializeMenu"
    /\ pending' = pending \ {r}
    /\ IF o = "ok"
         THEN \E rows \in menuRows(r) :
                /\ results' = <<>>
                /\ cards' = cards \o cardsOf(rows, r.id)
                /\ cliOp' = responseOp(r, o, namesOf(rows), FALSE)
         ELSE /\ results' = <<REQUEST_ERROR>>
              /\ cliOp' = responseOp(r, o, <<>>, FALSE)
              /\ UNCHANGED cards
    /\ UNCHANGED <<page, view, search, single, confirmation, nextId, started, lastDesc, lastQuery>>

\* updateMenu, up to its await: the click on #go-btn
updateMenu ==
  /\ page = "products"
  /\ started < MaxSequences
  /\ \E sd \in SortChoices :
       pending' = pending \cup
         {[NoFetch EXCEPT !.id = nextId, !.seq = "updateMenu", !.stage = "products",
                          !.text = search, !.contains = Given(formatDashes(search)),
                          !.sort = Given(sd[1]), !.direction = Given(sd[2])]}
  /\ results' = <<LOADING>>
  /\ nextId' = nextId + 1
  /\ started' = started + 1
  /\ cliOp' = [NoCliOp EXCEPT !.op = "updateMenu", !.id = nextId, !.seq = "updateMenu",
                              !.text = search, !.issued = TRUE]
  /\ lastQuery' = [NoQuery EXCEPT !.id = nextId]
  /\ UNCHANGED <<page, cards, view, search, single, confirmation, lastDesc>>

\* updateMenu, after its awaits: the section is emptied, then filled
UpdateResponse ==
  \E r \in pending, o \in JsonOutcomes :
    /\ r.seq = "updateMenu"
    /\ pending' = pending \ {r}
    /\ IF o = "ok"
         THEN \E rows \in menuRows(r) :
                /\ cards' = cardsOf(rows, r.id)
                /\ results' = IF Len(rows) = 0 THEN noResults(search) ELSE <<>>
                /\ cliOp' = responseOp(r, o, namesOf(rows), FALSE)
                /\ lastQuery' = IF r.id = lastQuery.id
                                   THEN [lastQuery EXCEPT !.outcome = o, !.rows = namesOf(rows)]
                                   ELSE lastQuery
         ELSE /\ results' = <<REQUEST_ERROR>>
              /\ cliOp' = responseOp(r, o, <<>>, FALSE)
              /\ lastQuery' = IF r.id = lastQuery.id
                                 THEN [lastQuery EXCEPT !.outcome = o]
                                 ELSE lastQuery
              /\ UNCHANGED cards
    /\ UNCHANGED <<page, view, search, single, confirmation, nextId, started, lastDesc>>

\* ---- products page: the single item view
\* the values of the <option>s of #flavor-select and #box-select for a product
flavorOptions(name) == {toLowerCase(r.flavor) : r \in selectFlavors(SeedFlavors, name)}
boxOptions == {toLowerCase(Plain), toLowerCase(Bow)}

\* the text POST /custom-description answers for a product of the catalog
customDescOf(name, flavor, box) ==
  customDescription(getDescription(SeedProducts, formatTitleCase(name)).rows[1].description,
                    flavor, box)

\* toggleView: the .hidden class moves to the other section
toggled(v) == IF v = "list" THEN "single" ELSE "list"

\* viewItem, up to its await: the click on the button of a card of the list,
\* while the list is shown
viewItem ==
  /\ page = "products"
  /\ view = "list"
  /\ started < MaxSequences
  /\ \E i \in DOMAIN cards :
       pending' = pending \cup
         {[NoFetch EXCEPT !.id = nextId, !.seq = "viewItem", !.stage = "product",
                          !.name = cards[i].name]}
  /\ single' = NoSingle
  /\ results' = <<LOADING>>
  /\ nextId' = nextId + 1
  /\ started' = started + 1
  /\ lastDesc' = [NoDesc EXCEPT !.n = lastDesc.n]
  /\ cliOp' = [NoCliOp EXCEPT !.op = "viewItem", !.id = nextId, !.seq = "viewItem",
                              !.issued = TRUE]
  /\ UNCHANGED <<page, cards, view, search, confirmation, lastQuery>>

\* a mutated nextOfViewItem, which asks for the description before the boxes
nextOfViewItem_DescBeforeBoxes(r, id) ==
  CASE r.stage = "product" ->
         {[r EXCEPT !.id = id, !.stage = "flavors"]}
    [] r.stage = "flavors" ->
         {[r EXCEPT !.id = id, !.stage = "custom-description",
                    !.flavor = toLowerCase(opts[1]), !.box = toLowerCase(Plain)] :
            opts \in {flavorNames(rows) :
                        rows \in SeqsOf(getProductFlavors(SeedProducts, SeedFlavors,
                                          formatTitleCase(formatDashes(r.name))).rows)}}
    [] r.stage = "box-decorations" ->
         {[r EXCEPT !.id = id, !.stage = "custom-description", !.box = toLowerCase(Plain)]}

\* the next fetch of viewItem and createSingleViewCard after the response of r:
\* the product, its flavors, the box decorations, the description
nextOfViewItem(r, id) ==
  CASE r.stage = "product" ->
         {[r EXCEPT !.id = id, !.stage = "flavors"]}
    [] r.stage = "flavors" ->
         {[r EXCEPT !.id = id, !.stage = "box-decorations",
                    !.flavor = toLowerCase(opts[1])] :
            opts \in {flavorNames(rows) :
                        rows \in SeqsOf(getProductFlavors(SeedProducts, SeedFlavors,
                                          formatTitleCase(formatDashes(r.name))).rows)}}
    [] r.stage = "box-decorations" ->
         {[r EXCEPT !.id = id, !.stage = "custom-description", !.box = toLowerCase(Plain)]}

\* viewItem and createSingleViewCard, from one await to the next
ViewItemResponse ==
  \E r \in pending, o \in Outcomes :
    /\ r.seq = "viewItem"
    /\ IF o # "ok"
         THEN /\ pending' = pending \ {r}
              /\ results' = <<REQUEST_ERROR>>
              /\ cliOp' = responseOp(r, o, <<>>, FALSE)
              /\ UNCHANGED <<single, view, nextId>>
         ELSE IF r.stage # "custom-description"
           THEN /\ \E n \in nextOfViewItem(r, nextId) : pending' = (pending \ {r}) \cup {n}
                /\ nextId' = nextId + 1
                /\ cliOp' = responseOp(r, o, <<>>, TRUE)
                /\ UNCHANGED <<single, view, results>>
           ELSE /\ pending' = pending \ {r}
                /\ single' = IF single.present
                                THEN [single EXCEPT !.count = @ + 1]
                                ELSE [present |-> TRUE, name |-> r.name,
                                      flavor |-> r.flavor, box |-> r.box,
                                      description |-> customDescOf(r.name, r.flavor, r.box),
                                      count |-> 1]
                /\ results' = <<>>
                /\ view' = toggled(view)
                /\ cliOp' = responseOp(r, o, <<>>, FALSE)
                /\ UNCHANGED nextId
    /\ UNCHANGED <<page, cards, search, confirmation, started, lastDesc, lastQuery>>

\* the back button of the card: toggleView
toggleView ==
  /\ page = "products"
  /\ single.present
  /\ view = "single"
  /\ results' = <<>>
  /\ view' = toggled(view)
  /\ cliOp' = [NoCliOp EXCEPT !.op = "toggleView"]
  /\ UNCHANGED <<page, cards, search, single, confirmation, pending, nextId, started,
                 lastDesc, lastQuery>>

\* changeDesc, up to its await: the user picks another option of one <select>
changeDesc ==
  /\ page = "products"
  /\ single.present
  /\ view = "single"
  /\ lastDesc.n < MaxChanges
  /\ \E f \in flavorOptions(single.name), b \in boxOptions :
       /\ (f = single.flavor) # (b = single.box)
       /\ single' = [single EXCEPT !.flavor = f, !.box = b]
       /\ pending' = pending \cup
            {[NoFetch EXCEPT !.id = nextId, !.seq = "changeDesc",
                             !.stage = "custom-description", !.name = single.name,
                             !.flavor = f, !.box = b]}
       /\ lastDesc' = [lastDesc EXCEPT !.id = nextId, !.n = @ + 1,
                                       !.description = customDescOf(single.name, f, b)]
  /\ results' = <<LOADING>>
  /\ nextId' = nextId + 1
  /\ cliOp' = [NoCliOp EXCEPT !.op = "changeDesc", !.id = nextId, !.seq = "changeDesc",
                              !.issued = TRUE]
  /\ UNCHANGED <<page, cards, view, search, confirmation, started, lastQuery>>

\* changeDesc, after its await: #description gets the text; without a card on
\* the page the assignment throws into the catch
ChangeDescResponse ==
  \E r \in pending, o \in Outcomes :
    /\ r.seq = "changeDesc"
    /\ pending' = pending \ {r}
    /\ IF o = "ok" /\ single.present
         THEN /\ single' = [single EXCEPT
                              !.description = customDescOf(r.name, r.flavor, r.box)]
              /\ results' = <<>>
              /\ UNCHANGED lastDesc
         ELSE /\ results' = <<REQUEST_ERROR>>
              /\ lastDesc' = [lastDesc EXCEPT !.failed = (@ \/ lastDesc.id # 0)]
              /\ UNCHANGED single
    /\ cliOp' = responseOp(r, o, <<>>, FALSE)
    /\ UNCHANGED <<page, cards, view, search, confirmation, nextId, started, lastQuery>>

\* ---- home page: the featured section
\* the names GET /featured may answer with (the lines of featured.txt)
FeaturedLists == { <<CakePops>>, <<Cake, Pie>> }

\* initializeFeatured, from one await to the next: the list of names, then one
\* product after the other, each card appended as soon as its product arrives
FeaturedResponse ==
  \E r \in pending, o \in Outcomes :
    /\ r.seq = "initializeFeatured"
    /\ IF o # "ok"
         THEN /\ pending' = pending \ {r}
              /\ results' = <<REQUEST_ERROR>>
              /\ cliOp' = responseOp(r, o, <<>>, FALSE)
              /\ UNCHANGED <<cards, nextId>>
         ELSE IF r.stage = "featured"
           THEN /\ \E list \in FeaturedLists :
                     pending' = (pending \ {r}) \cup
                       {[r EXCEPT !.id = nextId, !.stage = "product", !.list = list,
                                  !.idx = 1, !.name = formatDashes(list[1])]}
                /\ nextId' = nextId + 1
                /\ cliOp' = responseOp(r, o, <<>>, TRUE)
                /\ UNCHANGED <<cards, results>>
           ELSE /\ cards' = Append(cards, [name |-> getProduct(SeedProducts,
                                             formatTitleCase(r.name)).rows[1].name,
                                           req |-> r.id])
                /\ IF r.idx < Len(r.list)
                     THEN /\ pending' = (pending \ {r}) \cup
                               {[r EXCEPT !.id = nextId, !.idx = r.idx + 1,
                                          !.name = formatDashes(r.list[r.idx + 1])]}
                          /\ nextId' = nextId + 1
                          /\ cliOp' = responseOp(r, o, <<>>, TRUE)
                          /\ UNCHANGED results
                     ELSE /\ pending' = pending \ {r}
                          /\ results' = <<>>
                          /\ cliOp' = responseOp(r, o, <<>>, FALSE)
                          /\ UNCHANGED nextId
    /\ UNCHANGED <<page, view, search, single, confirmation, started, lastDesc, lastQuery>>

\* ---- home page: the contact form
FormEmails == { <<"a","@","b">>, <<"a","b">> }

\* the body the form posts with the email typed
formBody(email) ==
  [NoReq EXCEPT !.ep = "contact", !.name = Given(<<"Ann">>), !.email = Given(email),
                !.message = Given(<<"hi">>)]

\* submitForm, up to its await
submitForm ==
  /\ page = "home"
  /\ started < MaxSequences
  /\ \E e \in FormEmails :
       pending' = pending \cup
         {[NoFetch EXCEPT !.id = nextId, !.seq = "submitForm", !.stage = "contact-us",
                          !.email = e]}
  /\ nextId' = nextId + 1
  /\ started' = started + 1
  /\ cliOp' = [NoCliOp EXCEPT !.op = "submitForm", !.id = nextId, !.seq = "submitForm",
                              !.issued = TRUE]
  /\ UNCHANGED <<page, results, cards, view, search, single, confirmation, lastDesc, lastQuery>>

\* how POST /contact-us may end for a body: 400 only from validateForm
submitOutcomes(r) ==
  IF formInvalid(formBody(r.email)) # <<>> THEN {"status400", "status500", "network"}
  ELSE {"ok", "status500", "network"}

\* submitForm, after its awaits; checkStatus throws the body of a 400 and its
\* own message for another status, handlePostError shows err.message
SubmitResponse ==
  \E r \in pending :
    /\ r.seq = "submitForm"
    /\ pending' = pending \ {r}
    /\ \E o \in submitOutcomes(r) :
         /\ cliOp' = responseOp(r, o, <<>>, FALSE)
         /\ CASE o = "ok" -> confirmation' = <<CONFIRMATION>>
              [] o = "status400" -> confirmation' = formInvalid(formBody(r.email))
              [] o = "status500" -> confirmation' = <<POST_ERROR>>
              [] o = "network" -> \E t \in NetworkErrorTexts : confirmation' = <<t>>
    /\ UNCHANGED <<page, results, cards, view, search, single, nextId, started, lastDesc,
                   lastQuery>>

\* ---- FAQ page and macaron flavors page
FaqRows == << [name |-> <<"Do you do delivery?">>, complete |-> TRUE],
              [name |-> <<"Where do I pick up my order?">>, complete |-> TRUE] >>
MacaronRows == << [name |-> Chocolate, complete |-> TRUE],
                  [name |-> <<"M","a","n","g","o">>, complete |-> TRUE] >>

\* initializeFAQ and initializeFlavors, after their awaits; a macaron flavor
\* gets a card when it has a description and an image
ItemsResponse ==
  \E r \in pending, o \in Outcomes :
    /\ r.seq \in {"initializeFAQ", "initializeFlavors"}
    /\ pending' = pending \ {r}
    /\ IF o = "ok"
         THEN LET rows == IF r.seq = "initializeFAQ" THEN FaqRows
                          ELSE SelectSeq(MacaronRows, LAMBDA x : x.complete)
              IN /\ results' = <<>>
                 /\ cards' = cards \o cardsOf(rows, r.id)
                 /\ cliOp' = responseOp(r, o, namesOf(rows), FALSE)
         ELSE /\ results' = <<REQUEST_ERROR>>
              /\ cliOp' = responseOp(r, o, <<>>, FALSE)
              /\ UNCHANGED cards
    /\ UNCHANGED <<page, view, search, single, confirmation, nextId, started, lastDesc, lastQuery>>

InitClient ==
  /\ CliQuiet /\ FmtQuiet
  /\ SrvQuiet
  /\ href = "products.html"
  /\ loaded = FALSE
  /\ sessionCart = AbsentCart
  /\ cartDom = <<>>
  /\ cartCount = InitialCountText
  /\ totalPrice = InitialTotalText
  /\ lastOp = NoOp
  /\ added = [p \in ProductNames |-> 0]

NextClient ==
  \/ LoadPage /\ UNCHANGED <<cartVars, srvVars, fmtVars>>
  \/ typeSearch /\ UNCHANGED <<cartVars, srvVars, fmtVars>>
  \/ MenuResponse /\ UNCHANGED <<cartVars, srvVars, fmtVars>>
  \/ updateMenu /\ UNCHANGED <<cartVars, srvVars, fmtVars>>
  \/ UpdateResponse /\ UNCHANGED <<cartVars, srvVars, fmtVars>>
  \/ FeaturedResponse /\ UNCHANGED <<cartVars, srvVars, fmtVars>>
  \/ submitForm /\ UNCHANGED <<cartVars, srvVars, fmtVars>>
  \/ SubmitResponse /\ UNCHANGED <<cartVars, srvVars, fmtVars>>
  \/ ItemsResponse /\ UNCHANGED <<cartVars, srvVars, fmtVars>>

\* the pages as they load, search and submit
SpecClient == InitClient /\ [][NextClient]_vars

\* the products page once its list has loaded: the catalog by name, nothing in flight
ListLoaded ==
  /\ page = "products"
  /\ results = <<>>
  /\ \E rows \in menuRows(initialFetch("products")) : cards = cardsOf(rows, 1)
  /\ view = "list"
  /\ search = <<>>
  /\ single = NoSingle
  /\ confirmation = <<>>
  /\ pending = {}
  /\ nextId = 2
  /\ started = 0
  /\ cliOp = responseOp(initialFetch("products"), "ok", namesOf(cards), FALSE)
  /\ lastDesc = NoDesc
  /\ lastQuery = NoQuery

InitItem ==
  /\ ListLoaded /\ FmtQuiet
  /\ SrvQuiet
  /\ href = "products.html"
  /\ loaded = FALSE
  /\ sessionCart = AbsentCart
  /\ cartDom = <<>>
  /\ cartCount = InitialCountText
  /\ totalPrice = InitialTotalText
  /\ lastOp = NoOp
  /\ added = [p \in ProductNames |-> 0]

\* viewItem while no other View Item sequence is in flight
viewOneItem == (\A r \in pending : r.seq # "viewItem") /\ viewItem

NextItem ==
  \/ viewOneItem /\ UNCHANGED <<cartVars, srvVars, fmtVars>>
  \/ ViewItemResponse /\ UNCHANGED <<cartVars, srvVars, fmtVars>>
  \/ toggleView /\ UNCHANGED <<cartVars, srvVars, fmtVars>>
  \/ changeDesc /\ UNCHANGED <<cartVars, srvVars, fmtVars>>
  \/ ChangeDescResponse /\ UNCHANGED <<cartVars, srvVars, fmtVars>>

\* the item views of the products page, from the loaded list on, one item
\* opened at a time
SpecItem == InitItem /\ [][NextItem]_vars

NextViews ==
  \/ viewItem /\ UNCHANGED <<cartVars, srvVars, fmtVars>>
  \/ ViewItemResponse /\ UNCHANGED <<cartVars, srvVars, fmtVars>>
  \/ toggleView /\ UNCHANGED <<cartVars, srvVars, fmtVars>>

\* the View Item clicks and their responses in every interleaving
SpecViews == InitItem /\ [][NextViews]_vars

(***************************************************************************)
(* Claims about the pages.                                                 *)
(***************************************************************************)
\* C15: under every interleaving of the initial list load, the search/sort
\* submissions and their responses, the product list shows the results of one
\* response or nothing, never those of two responses together.
C15_OneResponseShown ==
  (page = "products") => \A i, j \in DOMAIN cards : cards[i].req = cards[j].req

\* C16: when a product fetch of the featured section fails, the section shows
\* the error and no featured card: the cards fetched before the failure are
\* not shown.
C16_NoPartialFeatured ==
  (page = "home" /\ results = <<REQUEST_ERROR>>) => cards = <<>>

\* C17: for every list query, the initial load and each search/sort submission,
\* the list view is Loading once the request is issued, and when its response is
\* processed it is Loaded for a non-empty collection, Empty with the no-results
\* message naming the query for an empty one, and Error for a network failure,
\* a parse failure or a non-2xx status.
C17_LoadingLoadedEmptyError ==
  (page = "products") =>
    /\ cliOp.op \in {"load", "updateMenu"} => results = <<LOADING>>
    /\ (cliOp.op = "response" /\ cliOp.seq \in {"initializeMenu", "updateMenu"}) =>
         IF cliOp.outcome # "ok" THEN results = <<REQUEST_ERROR>>
         ELSE IF cliOp.rows = <<>> THEN results = noResults(cliOp.text)
         ELSE results = <<>> /\ cards # <<>>

\* C18: each change of the flavor or box selection issues one custom-description
\* request with the values selected at that moment, and once the responses of
\* overlapping requests have all been processed the description shown is that of
\* the last request issued.
C18_LastRequestWins ==
  /\ cliOp.op = "changeDesc" =>
       \E r \in pending :
         /\ r.id = nextId - 1 /\ r.seq = "changeDesc" /\ r.name = single.name
         /\ r.flavor = single.flavor /\ r.box = single.box
  /\ ( /\ single.present /\ lastDesc.id # 0 /\ ~lastDesc.failed
       /\ \A r \in pending : r.seq # "changeDesc" ) =>
       single.description = lastDesc.description

\* C19: every fetch sequence of the pages that fails, at the network level or
\* with a non-2xx status, shows the generic "try again later" message of its
\* view and issues no further request.
C19_GenericMessageNoRetry ==
  (cliOp.op = "response" /\ cliOp.outcome # "ok") =>
    /\ ~cliOp.issued
    /\ IF cliOp.seq = "submitForm" THEN confirmation = <<POST_ERROR>>
       ELSE results = <<REQUEST_ERROR>>

\* the stage that follows a stage of the View Item sequence
StageAfter(stage) ==
  CASE stage = "product" -> "flavors"
    [] stage = "flavors" -> "box-decorations"
    [] stage = "box-decorations" -> "custom-description"
    [] OTHER -> "none"

\* C25: entering the detail view requests the product, its flavors, the box
\* decorations and the first custom description in this order, each after the
\* response of the one before; the detail view comes to be shown only at the
\* success of the fourth; a failure of any shows the error message and leaves
\* the shown section as it is, the list when it was the list.
C25_Step ==
  LET gone == pending \ pending'
      new == pending' \ pending
  IN /\ cliOp'.op = "viewItem" =>
          /\ \E n \in new : new = {n} /\ n.stage = "product" /\ n.seq = "viewItem"
          /\ view' = view
     /\ \A r \in gone : r.seq = "viewItem" =>
          /\ (cliOp'.outcome = "ok" /\ r.stage # "custom-description") =>
               /\ \E n \in new : /\ new = {n}
                                  /\ n.seq = "viewItem" /\ n.name = r.name
                                  /\ n.stage = StageAfter(r.stage)
               /\ view' = view /\ single' = single
          /\ (cliOp'.outcome = "ok" /\ r.stage = "custom-description") =>
               new = {} /\ view' = toggled(view) /\ single'.present
          /\ cliOp'.outcome # "ok" =>
               /\ new = {} /\ results' = <<REQUEST_ERROR>>
               /\ view' = view /\ single' = single
     /\ (view = "list" /\ view' = "single") =>
          \E r \in gone : /\ r.seq = "viewItem" /\ r.stage = "custom-description"
                           /\ cliOp'.outcome = "ok"

C28_Step ==
  \A r \in pending \ pending' :
    (r.seq = "viewItem" /\ r.stage = "custom-description" /\ cliOp'.outcome = "ok") =>
      view' = "single"

C28_OneCardShown ==
  /\ [](view = "single" => single.count = 1)
  /\ [][C28_Step]_vars

\* C30: when several search submissions overlap, once all their responses are
\* processed the list shows the results of the most recently submitted query
\* (for an answered query, and with no card of the initial load on the page).
C30_LastQueryShown ==
  ( /\ page = "products"
    /\ lastQuery.id # 0 /\ lastQuery.outcome = "ok"
    /\ \A r \in pending : r.seq \notin {"initializeMenu", "updateMenu"}
    /\ \A i \in DOMAIN cards : cards[i].req # 1 ) =>
    /\ namesOf(cards) = lastQuery.rows
    /\ \A i \in DOMAIN cards : cards[i].req = lastQuery.id

(***************************************************************************)
(* Names between the pages and the API: formatDashes makes the URL segment  *)
(* of a displayed name, formatTitleCase the name of a segment, and          *)
(* getProduct looks the name up.                                            *)
(***************************************************************************)
MaxWords == 2

NameWords == {<<"C","a","k","e">>, <<"P","o","p","s">>, <<"(","6">>, <<"p","i","e">>}

\* the texts of 1..MaxWords words from a set, joined by a separator
JoinedWords(words, sep) ==
  UNION {{join(ws, sep) : ws \in [1..n -> words]} : n \in 1..MaxWords}

\* displayed names of single-space-separated words, lowercase dash-joined
\* segments, and texts that are neither
FormatInputs ==
  ProductNames
  \cup JoinedWords(NameWords, " ")
  \cup JoinedWords({toLowerCase(w) : w \in NameWords}, "-")
  \cup {HalfBaked, <<"C","a","k","e","-","p","o","p","s">>,
        <<"c","a","k","e"," ","p","o","p","s">>, <<" ","p","i","e">>}

MaxCalls == 2

InitNames ==
  /\ fmtIn \in FormatInputs
  /\ fmtText = fmtIn
  /\ fmtTrail = <<>>
  /\ href = "products.html"
  /\ loaded = FALSE
  /\ sessionCart = AbsentCart
  /\ cartDom = <<>>
  /\ cartCount = InitialCountText
  /\ totalPrice = InitialTotalText
  /\ lastOp = NoOp
  /\ added = [p \in ProductNames |-> 0]
  /\ SrvQuiet /\ CliQuiet

ToDashes ==
  /\ Len(fmtTrail) < MaxCalls
  /\ fmtText' = formatDashes(fmtText)
  /\ fmtTrail' = Append(fmtTrail, "formatDashes")
  /\ UNCHANGED fmtIn

ToTitleCase ==
  /\ Len(fmtTrail) < MaxCalls
  /\ fmtText' = formatTitleCase(fmtText)
  /\ fmtTrail' = Append(fmtTrail, "formatTitleCase")
  /\ UNCHANGED fmtIn

\* GET /products/:product for the segment a page made of a name: the name of
\* the row found, or nothing
Lookup ==
  /\ fmtTrail = <<"formatDashes", "formatTitleCase">>
  /\ LET r == getProduct(SeedProducts, fmtText)
     IN fmtText' = IF r.threw THEN <<>> ELSE r.rows[1].name
  /\ fmtTrail' = Append(fmtTrail, "getProduct")
  /\ UNCHANGED fmtIn

NextNames ==
  \/ ToDashes /\ UNCHANGED <<cartVars, srvVars, cliVars>>
  \/ ToTitleCase /\ UNCHANGED <<cartVars, srvVars, cliVars>>
  \/ Lookup /\ UNCHANGED <<cartVars, srvVars, cliVars>>

SpecNames == InitNames /\ [][NextNames]_vars

\* words separated by single spaces, none with a dash
SingleSpaced(name) ==
  /\ \A i \in 1..Len(name) : name[i] # "-"
  /\ \A w \in {split(name, " ")[i] : i \in 1..Len(split(name, " "))} : w # <<>>

\* a lowercase segment of dash-joined words, without a space
DashJoined(segment) ==
  /\ \A i \in 1..Len(segment) : segment[i] # " "
  /\ toLowerCase(segment) = segment

\* C26: formatTitleCase(formatDashes(name)) equals name up to letter case for
\* every displayed name of single-space-separated words without dashes;
\* formatDashes(formatTitleCase(segment)) equals segment for every lowercase
\* dash-joined segment without spaces; so a catalog name sent through a URL
\* segment resolves to the product of that name.
C26_RoundTrips ==
  /\ (SingleSpaced(fmtIn) /\ fmtTrail = <<"formatDashes", "formatTitleCase">>) =>
       toLowerCase(fmtText) = toLowerCase(fmtIn)
  /\ (DashJoined(fmtIn) /\ fmtTrail = <<"formatTitleCase", "formatDashes">>) =>
       fmtText = fmtIn
  /\ (fmtIn \in ProductNames
        /\ fmtTrail = <<"formatDashes", "formatTitleCase", "getProduct">>) =>
       fmtText = fmtIn

\* a name of two words has made the round trip and differs in letter case only
C26_Witness ==
  /\ fmtTrail = <<"formatDashes", "formatTitleCase">>
  /\ SingleSpaced(fmtIn) /\ Len(split(fmtIn, " ")) = 2
  /\ fmtText # fmtIn /\ toLowerCase(fmtText) = toLowerCase(fmtIn)
====
